---- MODULE Spec2Model ----
(***************************************************************************)
(* Model of the reflex core: the Reaction graph (reaction.ts), the event    *)
(* queue FSM (router.ts), the interceptor pipeline (interceptor.ts,         *)
(* events.ts, fx.ts) and the app-db bridge (db.ts).                         *)
(*                                                                         *)
(* JavaScript is single threaded: every callback (a synchronous call of    *)
(* the API, a microtask, a scheduled macrotask) runs to completion, so     *)
(* each one is a single action; the calls it makes are operators threaded  *)
(* through a record of the objects' fields.                                *)
(***************************************************************************)
EXTENDS Integers, Sequences, FiniteSets, TLC

\* ------------------------------------------------------------------ bounds
MaxVal == 0            \* the root's source value ranges over 0..MaxVal and 5
MaxVersion == 2        \* API calls stop once a version counter reaches this
MaxWatch == 2          \* total number of registered watcher callbacks
MaxCalls == 2          \* API calls made in one task (one synchronous block)
MaxEvents == 3         \* events given to the queue in one run

\* ------------------------------------------------------------ graph shape
\* the JavaScript value undefined (no source or computed value is negative)
Undefined == -1

\* the JavaScript value NaN (undefined * 2, undefined + 1)
NaN == -2

Nodes == {"base", "left", "right", "top"}

\* the reactions of the registry: the diamond, whose root is the subscription
\* to the key count, and the root subscription to the key other
Reactions == Nodes \cup {"aux"}

Callbacks == {"cb1", "cb2"}

SourceVals == (0..MaxVal) \cup {5}

\* the snapshot given to initAppDb
InitialDb == [count |-> 0, left |-> 0, other |-> [a |-> 0, b |-> 0]]

\* Reaction.deps, as passed to Reaction.create
deps ==
  [base |-> <<>>, left |-> <<"base">>, right |-> <<"base">>,
   top |-> <<"left", "right">>, aux |-> <<>>]

VARIABLES
  appDb,        \* the app-db snapshot; the root's compute function reads count
  faulty,       \* TRUE when the application registered the compute function
                \*          and the watcher callback that throw
  errors,       \* history: the errors logged and the exceptions that left a
                \*          callback in this wave, in order
  owed,         \* history: the watchers registered when a commit changed their
                \*          node's output and not yet called with the new value
  rx,           \* the Reaction objects' fields, per node
  microtasks,   \* callbacks given to queueMicrotask, oldest first
  draining,     \* TRUE while the microtask queue is being drained
  bumped,       \* history: nodes whose version was incremented in this wave
  marks,        \* history: markDirty() invocations per node in this wave
  cnt,          \* history: computeFn invocations per node in this wave
  task,         \* history: the API calls of this wave, in order
  notes,        \* history: watcher notifications of this wave, in order
  stepNotes,    \* history: watcher notifications of the last action
  eqOut,        \* history: derived nodes whose computeFn returned a value
                \*          equal to the cached one in the last action
  fsmState,     \* EventQueue.fsmState
  queue,        \* EventQueue.queue, oldest first
  tickQ,        \* callbacks given to scheduleNextTick, oldest first
  renderQ,      \* callbacks given to scheduleAfterRender, oldest first
  reactionsQueue,      \* db.ts reactionsQueue, in insertion order
  reactionsScheduled,  \* db.ts reactionsScheduled
  errorHandler, \* the registered 'error'/'event-handler' handler
  dispatched,   \* history: the events added to the queue, in order
  handled,      \* history: ids of the events given to handle(), in order
  failed,       \* history: ids of the events whose handle() threw
  purged,       \* history: ids of the events discarded behind a failed one
  trace         \* history: what the last callback did, in order

gvars ==
  <<appDb, rx, microtasks, draining, task, bumped, marks, cnt, notes, stepNotes,
    eqOut, faulty, errors, owed>>

evars ==
  <<fsmState, queue, tickQ, renderQ, reactionsQueue, reactionsScheduled,
    errorHandler, dispatched, handled, failed, purged, trace>>

vars == <<gvars, evars>>

\* ---------------------------------------------------------- small helpers
Range(s) == {s[i] : i \in 1..Len(s)}

Contains(s, x) == x \in Range(s)

Without(s, x) == SelectSeq(s, LAMBDA y : y # x)

AddOnce(s, x) == IF Contains(s, x) THEN s ELSE Append(s, x)

Occurrences(s, x) == Len(SelectSeq(s, LAMBDA y : y = x))

\* new Reaction(computeFn, deps): the field initialisers
NewReaction ==
  [dependents |-> <<>>, watchers |-> <<>>, dirty |-> FALSE,
   scheduled |-> FALSE, value |-> Undefined, version |-> 0,
   depsVersions |-> <<>>]

isRoot(n) == Len(deps[n]) = 0

hasWatchers(g, n) == Len(g.rx[n].watchers) > 0

hasDependents(g, n) == Len(g.rx[n].dependents) > 0

isAlive(g, n) == hasWatchers(g, n) \/ hasDependents(g, n)

\* arithmetic on undefined or NaN yields NaN; comparisons with them are false
IsNum(v) == v # Undefined /\ v # NaN

\* the compute functions given to Reaction.create:
\*   base: () => getAppDb().count     left: v => v * 2
\*   right: v => v + 1                top: (l, r) => l + r
\*   aux: () => getAppDb().other
computeFn(n, vals) ==
  CASE n = "base" -> appDb.count
    [] n = "aux" -> appDb.other
    [] n = "left" -> IF IsNum(vals[1]) THEN vals[1] * 2 ELSE NaN
    [] n = "right" -> IF IsNum(vals[1]) THEN vals[1] + 1 ELSE NaN
    [] n = "top" -> IF IsNum(vals[1]) /\ IsNum(vals[2]) THEN vals[1] + vals[2] ELSE NaN

\* the compute function of right, when faulty, throws on the input 5
throws(n, vals) == faulty /\ n = "right" /\ vals[1] = 5

\* the first callback, when faulty, throws on every call
watcherThrows(cb, val) == faulty /\ cb = "cb1"

\* fast-deep-equal on the values of the model (numbers, NaN, undefined, arrays);
\* it takes NaN to equal NaN
isEqual(a, b) == a = b

\* -------------------------------------------------------------- Reaction
\* The operators below thread g, a record of everything a call can touch:
\*   rx, micro (the microtask queue), marks, cnt, notes, step, eq, bumped, log
\*   (the histories), and exc, TRUE while an exception is propagating.

\* one line of the error history
logged(kind, n, cb) == [kind |-> kind, node |-> n, cb |-> cb]

\* throw
raise(g) == [g EXCEPT !.exc = TRUE]

setField(g, n, f, v) == [g EXCEPT !.rx[n][f] = v]

\* mutant of scheduleRecompute: the scheduled flag is not consulted
scheduleAlways(g, n) ==
  [setField(g, n, "scheduled", TRUE) EXCEPT !.micro = Append(@, n)]

\* scheduleRecompute(): queueMicrotask unless already scheduled
scheduleRecompute(g, n) ==
  IF g.rx[n].scheduled THEN g
  ELSE [setField(g, n, "scheduled", TRUE) EXCEPT !.micro = Append(@, n)]

RECURSIVE markDirty(_, _), markDirtyEach(_, _, _)

\* markDirty(): taint this node, then its dependents, then schedule if alive
markDirty(g, n) ==
  LET g1 == [setField(g, n, "dirty", TRUE) EXCEPT !.marks[n] = @ + 1]
      g2 == markDirtyEach(g1, g1.rx[n].dependents, 1)
  IN IF ~isAlive(g2, n) THEN g2 ELSE scheduleRecompute(g2, n)

\* mutant of markDirtyEach: only the first dependent is marked
markFirstOnly(g, ds, i) ==
  IF i > Len(ds) \/ i > 1 THEN g ELSE markDirty(g, ds[i])

\* for (const c of this.dependents) c.markDirty()
markDirtyEach(g, ds, i) ==
  IF i > Len(ds) THEN g ELSE markDirtyEach(markDirty(g, ds[i]), ds, i + 1)

\* mutant of ensureDirty: the dependencies are not marked
dirtySelfOnly(g, n) == setField(g, n, "dirty", TRUE)

RECURSIVE ensureDirty(_, _), ensureDirtyEach(_, _, _)

\* ensureDirty(): taint this node and its whole dependency set
ensureDirty(g, n) ==
  ensureDirtyEach(setField(g, n, "dirty", TRUE), deps[n], 1)

ensureDirtyEach(g, ds, i) ==
  IF i > Len(ds) THEN g ELSE ensureDirtyEach(ensureDirty(g, ds[i]), ds, i + 1)

RECURSIVE ensureAliveWith(_, _, _), ensureAliveEach(_, _, _, _)

\* ensureAliveWith(child): record the consumer, then keep the deps alive
ensureAliveWith(g, n, child) ==
  LET g1 == IF g.rx[n].value = Undefined THEN setField(g, n, "dirty", TRUE) ELSE g
      g2 == setField(g1, n, "dependents", AddOnce(g1.rx[n].dependents, child))
  IN ensureAliveEach(g2, deps[n], 1, n)

\* mutant of ensureAliveEach: only the first dependency records the consumer
aliveFirstOnly(g, ds, i, child) ==
  IF i > Len(ds) \/ i > 1 THEN g ELSE ensureAliveWith(g, ds[i], child)

\* for (const d of this.deps) d.ensureAliveWith(this)
ensureAliveEach(g, ds, i, child) ==
  IF i > Len(ds) THEN g
  ELSE ensureAliveEach(ensureAliveWith(g, ds[i], child), ds, i + 1, child)

\* the field resets at the top of disposeIfUnused()
disposeReset(g, n) ==
  [g EXCEPT !.rx[n].depsVersions = <<>>, !.rx[n].dirty = FALSE,
            !.rx[n].scheduled = FALSE]

\* mutant of releaseEdge: the edge is left in place
keepEdge(g, d, n) == g

\* d.dependents.delete(this)
releaseEdge(g, d, n) ==
  setField(g, d, "dependents", Without(g.rx[d].dependents, n))

RECURSIVE disposeIfUnused(_, _), disposeEach(_, _, _, _)

\* disposeIfUnused(): a node that is not alive lets go of its dependencies
disposeIfUnused(g, n) ==
  IF isAlive(g, n) THEN g ELSE disposeEach(disposeReset(g, n), deps[n], 1, n)

disposeEach(g, ds, i, n) ==
  IF i > Len(ds) THEN g
  ELSE disposeEach(disposeIfUnused(releaseEdge(g, ds[i], n), ds[i]), ds, i + 1, n)

\* watch(callback)
watch(g, n, cb) ==
  IF Contains(g.rx[n].watchers, cb) THEN g
  ELSE ensureAliveEach(setField(g, n, "watchers", Append(g.rx[n].watchers, cb)),
                       deps[n], 1, n)

\* unwatch(fn)
unwatch(g, n, cb) ==
  IF ~Contains(g.rx[n].watchers, cb) THEN g
  ELSE LET g1 == setField(g, n, "watchers", Without(g.rx[n].watchers, cb))
       IN IF Len(g1.rx[n].watchers) = 0 THEN disposeIfUnused(g1, n) ELSE g1

\* one more invocation of n's compute function
counted(g, n) == [g EXCEPT !.cnt[n] = @ + 1]

\* mutant of runRoot: the root's new value is compared with the cached one
runRootGated(g, n) ==
  [g |-> setField(counted(g, n), n, "value", computeFn(n, <<>>)),
   changed |-> ~isEqual(computeFn(n, <<>>), g.rx[n].value)]

\* the root branch: changed = true; this.value = this.computeFn()
runRoot(g, n) ==
  IF throws(n, <<>>) THEN [g |-> raise(counted(g, n)), changed |-> TRUE]
  ELSE [g |-> setField(counted(g, n), n, "value", computeFn(n, <<>>)),
        changed |-> TRUE]

\* mutant of mustRun: the dependency versions are not consulted
alwaysRun(g, n, currentVersions) == TRUE

\* does the derived branch run the body: no cached value, or versions changed
mustRun(g, n, currentVersions) ==
  g.rx[n].value = Undefined \/ ~isEqual(currentVersions, g.rx[n].depsVersions)

\* changed = !isEqual(newVal, this.value)
outputChanged(newVal, oldVal) == ~isEqual(newVal, oldVal)

\* the derived branch, once the dependencies have been pulled
runDerived(g, n, values, currentVersions) ==
  IF mustRun(g, n, currentVersions) /\ throws(n, values)
  THEN [g |-> raise(counted(g, n)), changed |-> FALSE]
  ELSE IF mustRun(g, n, currentVersions)
  THEN LET newVal == computeFn(n, values)
           changed == outputChanged(newVal, g.rx[n].value)
           g1 == counted(g, n)
           g2 == IF changed THEN setField(g1, n, "value", newVal)
                 ELSE [g1 EXCEPT !.eq = @ \cup {n}]
       IN [g |-> setField(g2, n, "depsVersions", currentVersions),
           changed |-> changed]
  ELSE [g |-> g, changed |-> FALSE]

\* mutant of catchWatcher: the watcher's exception leaves the loop
escapeWatcher(g, n, cb) == raise(g)

\* catch (error) { consoleLog('error', '[reflex] Error in reaction watcher:') }
catchWatcher(g, n, cb) == [g EXCEPT !.log = Append(@, logged("watcher", n, cb))]

\* try { w.callback(this.value) } catch ...
callWatcher(g, n, cb) ==
  LET called == [node |-> n, cb |-> cb, value |-> g.rx[n].value]
      g1 == [g EXCEPT !.notes = Append(@, called), !.step = Append(@, called)]
  IN IF watcherThrows(cb, g.rx[n].value) THEN catchWatcher(g1, n, cb) ELSE g1

RECURSIVE notifyEach(_, _, _, _)

\* the loop goes on to the next watcher unless an exception left the last call
notifyEach(g, n, ws, i) ==
  IF i > Len(ws) \/ g.exc THEN g
  ELSE notifyEach(callWatcher(g, n, ws[i]), n, ws, i + 1)

\* for (const w of this.watchers) ...
notifyWatchers(g, n) == notifyEach(g, n, g.rx[n].watchers, 1)

\* mutant of bumpVersion: the version is incremented on every recompute
bumpAlways(g, n, changed) ==
  [setField(g, n, "version", g.rx[n].version + 1) EXCEPT !.bumped = @ \cup {n}]

\* if (changed) this.version++
bumpVersion(g, n, changed) ==
  IF changed
  THEN [setField(g, n, "version", g.rx[n].version + 1)
          EXCEPT !.bumped = @ \cup {n}]
  ELSE g

\* mutant of mustNotify: watchers are called whether or not the value changed
notifyUnchanged(g, n, changed, notify) == notify /\ hasWatchers(g, n)

\* if (notifyWatchers && changed && this.watchers.length > 0)
mustNotify(g, n, changed, notify) == notify /\ changed /\ hasWatchers(g, n)

\* the end of recomputeIfNeeded(): clear dirty, bump the version, notify
publish(g, n, changed, notify) ==
  LET g1 == setField(g, n, "dirty", FALSE)
      g2 == bumpVersion(g1, n, changed)
  IN IF mustNotify(g2, n, changed, notify) THEN notifyWatchers(g2, n) ELSE g2

\* mutant of isClean: every pull recomputes
neverClean(g, n) == FALSE

\* if (!this.dirty) return
isClean(g, n) == ~g.rx[n].dirty

\* the statements after the compute part, which r is the outcome of: an
\* exception thrown there skips them
completed(r, n, notify) ==
  IF r.g.exc THEN r.g ELSE publish(r.g, n, r.changed, notify)

\* the derived branch after this.deps.map, which p is the outcome of
pulled(p, n, notify) ==
  IF p.g.exc THEN p.g
  ELSE completed(runDerived(p.g, n, p.values, p.versions), n, notify)

\* mutant of rethrow: the error is logged and not thrown again
swallowError(g, n) ==
  [g EXCEPT !.log = Append(@, logged("computation", n, "-")), !.exc = FALSE]

\* consoleLog('error', 'Error in reaction computation'); throw error
rethrow(g, n) == [g EXCEPT !.log = Append(@, logged("computation", n, "-"))]

\* catch (error) around the whole body
outerCatch(g, n) == IF g.exc THEN rethrow(g, n) ELSE g

RECURSIVE recomputeIfNeeded(_, _, _), getDepValues(_, _, _, _, _, _),
          depPulled(_, _, _, _, _, _)

\* recomputeIfNeeded(notifyWatchers)
recomputeIfNeeded(g, n, notify) ==
  IF isClean(g, n) THEN g
  ELSE IF isRoot(n)
       THEN outerCatch(completed(runRoot(g, n), n, notify), n)
       ELSE outerCatch(pulled(getDepValues(g, deps[n], 1, notify, <<>>, <<>>),
                              n, notify), n)

\* this.deps.map(d => d.getDepValue(notifyWatchers)): [value, version] of each
\* dependency, read right after that dependency's own recomputeIfNeeded
getDepValues(g, ds, i, notify, vals, vers) ==
  IF i > Len(ds) THEN [g |-> g, values |-> vals, versions |-> vers]
  ELSE depPulled(recomputeIfNeeded(g, ds[i], notify), ds, i, notify, vals, vers)

\* an exception thrown by a dependency's recompute ends the map
depPulled(g1, ds, i, notify, vals, vers) ==
  IF g1.exc THEN [g |-> g1, values |-> vals, versions |-> vers]
  ELSE getDepValues(g1, ds, i + 1, notify,
                    Append(vals, g1.rx[ds[i]].value),
                    Append(vers, g1.rx[ds[i]].version))

\* computeValue(): the forced read
computeValue(g, n) == recomputeIfNeeded(ensureDirty(g, n), n, FALSE)

\* the callback given to queueMicrotask by scheduleRecompute()
recomputeTask(g, n) ==
  recomputeIfNeeded(setField(g, n, "scheduled", FALSE), n, TRUE)

\* ------------------------------------------------------ the event queue
\* no value: undefined, a missing handler, an absent metadata key
None == "none"

\* laterFns: the metadata keys that name a scheduling hook
laterFns == [flush |-> "scheduleAfterRender", yield |-> "scheduleNextTick"]

\* the registered event handlers; "ghost" is dispatched but never registered
Registered == {"inc", "fx", "boom", "spawn-boom", "guarded", "noop"}

\* the registered effect handlers ('dispatch' is built in)
Effects == {"note", "bad", "dispatch", "stamp"}

\* the handler given to regEventErrorHandler: none (cleared), defaultErrorHandler
\* (logs and re-throws the original error), or one that returns normally
ErrorHandlers == {None, "default", "swallow"}

\* a value that is not a non-empty array
Invalid == [kind |-> None, meta |-> <<>>]

\* the event a handler or a 'dispatch' effect dispatches
incEvent == [kind |-> "inc", meta |-> <<>>]

\* one line of the callback's history, with the store as it is at that moment
note(w, op, id, ic) ==
  [w EXCEPT !.trace = Append(@, [op |-> op, id |-> id, ic |-> ic,
                                 db |-> w.appDb,
                                 pending |-> w.reactionsQueue])]

scheduleAfterRender(w, f) == [w EXCEPT !.renderQ = Append(@, f)]

scheduleNextTick(w, f) == [w EXCEPT !.tickQ = Append(@, f)]

RECURSIVE fsmTrigger(_, _, _)

\* this.fsmState = newState
setState(w, newState) == [w EXCEPT !.fsmState = newState]

\* one state change of the FSM: the history keeps the state before, the
\* trigger, the state after and the queue's length when the trigger fired
transition(w, trigger, newState) ==
  setState([w EXCEPT !.trace =
              Append(@, [op |-> "fsm", id |-> 0, ic |-> trigger,
                         db |-> w.appDb, pending |-> w.reactionsQueue,
                         from |-> w.fsmState, to |-> newState,
                         qlen |-> Len(w.queue)])],
           newState)

\* mutant of finishState: a finished drain always goes idle
finishIdle(w) == "idle"

\* case 'running:finish-run': idle when the queue is empty, else scheduled
finishState(w) == IF Len(w.queue) = 0 THEN "idle" ELSE "scheduled"

push(w, event) == fsmTrigger(w, "add-event", event)

\* mutant of purge: only the head of the queue is dropped
purgeHead(w) == [w EXCEPT !.queue = IF Len(@) = 0 THEN @ ELSE Tail(@)]

purge(w) == [w EXCEPT !.queue = <<>>]

isValidEventVector(value) == value.kind # None

\* mutant of dispatch: the value is pushed without the check
dispatchUnchecked(w, event) == push(w, event)

dispatch(w, event) ==
  IF ~isValidEventVector(event) THEN note(w, "invalid-dispatch", 0, None)
  ELSE push(w, event)

\* ------------------------------------- the interceptor pipeline of one event
\* the state of a running pipeline: the world, the Context, the exception
NoExc ==
  [thrown |-> FALSE, wrapped |-> FALSE, direction |-> None,
   interceptor |-> None, cause |-> None]

\* an Error thrown by user code
Thrown == [NoExc EXCEPT !.thrown = TRUE]

\* mutant of exceptionToExInfo: the data does not name the direction
exInfoWithoutDirection(e, interceptor, direction) ==
  [thrown |-> TRUE, wrapped |-> TRUE, direction |-> None,
   interceptor |-> interceptor, cause |-> e]

\* a new Error with data {direction, interceptor, originalError} and cause e
exceptionToExInfo(e, interceptor, direction) ==
  [thrown |-> TRUE, wrapped |-> TRUE, direction |-> direction,
   interceptor |-> interceptor, cause |-> e]

\* mergeExData(e, {eventV}): the data of e with the event added
mergeExData(e, eventV) ==
  [direction |-> e.direction, interceptor |-> e.interceptor,
   eventV |-> eventV.id]

\* the object {}: every key reads undefined
EmptyObj == [count |-> Undefined, left |-> Undefined, other |-> Undefined]

DbKeys == <<"count", "left", "other">>

createContext(eventV, interceptors) ==
  [event |-> eventV, effects |-> <<>>, queue |-> interceptors, stack |-> <<>>,
   newDb |-> EmptyObj, patches |-> <<>>, originalException |-> FALSE]

\* settings.ts store.globalInterceptors
getGlobalInterceptors == <<"audit", "stamp">>

\* registrar.ts interceptorsRegistry.get(eventId) || []
getInterceptors(eventId) ==
  CASE eventId = "guarded" -> <<"bad-after">>
    [] eventId = "fx" -> <<"trim", "log">>
    [] OTHER -> <<>>

\* mutant of handleInterceptors: do-fx is put right before the handler
doFxInnermost(eventId) ==
  <<"inject-global-interceptors">> \o getInterceptors(eventId)
    \o <<"do-fx", "fx-handler">>

\* handle(): [doFxInterceptor, injectGlobalInterceptors, ...customInterceptors,
\* eventHandlerInterceptor(handler)]
handleInterceptors(eventId) ==
  <<"do-fx", "inject-global-interceptors">> \o getInterceptors(eventId)
    \o <<"fx-handler">>

\* the registered handler functions, run on the draft of the current snapshot
handlerFn(w, kind, draftDb) ==
  CASE kind \in {"inc", "guarded"} ->
         [w |-> w, draftDb |-> [draftDb EXCEPT !.count = @ + 1],
          effects |-> << <<"note", 0>> >>, throws |-> FALSE]
    [] kind = "fx" ->
         [w |-> w,
          draftDb |-> [draftDb EXCEPT !.left = 1, !.other.a = 1, !.other.b = 1],
          effects |-> << <<"bad", 0>>, <<"note">>, <<"missing", 0>>,
                         <<"note", 0>>, <<"dispatch", incEvent>> >>,
          throws |-> FALSE]
    [] kind = "noop" ->
         [w |-> w, draftDb |-> draftDb, effects |-> << <<"note", 0>> >>,
          throws |-> FALSE]
    [] kind = "boom" ->
         [w |-> w, draftDb |-> [draftDb EXCEPT !.count = @ + 1],
          effects |-> <<>>, throws |-> TRUE]
    [] kind = "spawn-boom" ->
         [w |-> dispatch(w, incEvent), draftDb |-> draftDb,
          effects |-> <<>>, throws |-> TRUE]

\* the paths under a top-level key: the key itself, or its two leaves
Paths(k) == IF k = "other" THEN << <<k, "a">>, <<k, "b">> >> ELSE << <<k>> >>

\* the value of the snapshot at a path
ValueAt(db, path) ==
  IF Len(path) = 1 THEN db[path[1]] ELSE db[path[1]][path[2]]

\* immer: one patch per changed path, none for a path assigned its old value
patchesOf(base, draft) ==
  SelectSeq(Paths("count") \o Paths("left") \o Paths("other"),
            LAMBDA path : ValueAt(draft, path) # ValueAt(base, path))

\* mutant of handlerReturned: the handler's writes go to the store itself
handlerWroteStore(r, h) ==
  IF h.throws THEN [r EXCEPT !.w = [h.w EXCEPT !.appDb = h.draftDb], !.exc = Thrown]
  ELSE [w |-> [h.w EXCEPT !.appDb = h.draftDb], exc |-> NoExc,
        ctx |-> [r.ctx EXCEPT !.newDb = h.draftDb,
                              !.patches = patchesOf(r.w.appDb, h.draftDb),
                              !.effects = @ \o h.effects]]

\* eventHandlerInterceptor(handler).before, once handler(...) returned h or threw
handlerReturned(r, h) ==
  IF h.throws THEN [r EXCEPT !.w = h.w, !.exc = Thrown]
  ELSE [w |-> h.w, exc |-> NoExc,
        ctx |-> [r.ctx EXCEPT !.newDb = h.draftDb,
                              !.patches = patchesOf(r.w.appDb, h.draftDb),
                              !.effects = @ \o h.effects]]

\* eventHandlerInterceptor(handler).before: the handler runs inside
\* produceWithPatches(getAppDb(), ...)
eventHandlerBefore(r) ==
  handlerReturned(r, handlerFn(note(r.w, "handler", r.ctx.event.id,
                                    r.ctx.event.kind),
                               r.ctx.event.kind, r.w.appDb))

\* registrar.ts getReaction(JSON.stringify([rootKey]))
getReaction(rootKey) ==
  CASE rootKey = "count" -> "base"
    [] rootKey = "left" -> "left"
    [] rootKey = "other" -> "aux"
    [] OTHER -> None

\* mutant of rootKeyOf: the last path element is taken
leafKeyOf(pathSegments) == pathSegments[Len(pathSegments)]

\* const rootKey = pathSegments[0]
rootKeyOf(pathSegments) == pathSegments[1]

\* mutant of addKey: the pending keys are kept in a list
addKeyAgain(keys, key) == Append(keys, key)

\* mutant of addKey: a key is added only to an empty set
addKeyFirst(keys, key) == IF Len(keys) > 0 THEN keys ELSE Append(keys, key)

\* reactionsQueue.add(subVectorKey): a Set keeps one entry per key
addKey(keys, key) == AddOnce(keys, key)

\* the loop over the patches in updateAppDbWithPatches
RECURSIVE queueRoots(_, _, _)
queueRoots(w, patches, i) ==
  IF i > Len(patches) THEN w
  ELSE LET pathSegments == patches[i]
           rootKey == rootKeyOf(pathSegments)
           reaction == IF Len(pathSegments) > 0
                       THEN getReaction(rootKey) ELSE None
           seen == note(w, "patch", Len(pathSegments), rootKey)
       IN IF reaction = None THEN queueRoots(seen, patches, i + 1)
          ELSE IF ~isRoot(reaction)
          THEN queueRoots(note(seen, "not-root", 0, rootKey), patches, i + 1)
          ELSE queueRoots([seen EXCEPT !.reactionsQueue = addKey(@, rootKey)],
                          patches, i + 1)

\* for (const subVectorKey of reactionsQueue) getReaction(key)?.markDirty()
RECURSIVE markDirtyAll(_, _, _)
markDirtyAll(g, keys, i) ==
  IF i > Len(keys) THEN g
  ELSE markDirtyAll(IF getReaction(keys[i]) # None
                    THEN markDirty(g, getReaction(keys[i])) ELSE g,
                    keys, i + 1)

\* the callback given to scheduleAfterRender: every queued root is marked
\* dirty, then the queue is cleared and the flag reset (w.g: the reactions)
flushReactions(w) ==
  [w EXCEPT !.g = markDirtyAll(w.g, w.reactionsQueue, 1),
            !.reactionsQueue = <<>>,
            !.reactionsScheduled = FALSE]

\* mutant of scheduleFlush: the roots are marked dirty and the watchers of the
\* subscription called at once, inside the commit
flushSync(w) ==
  IF Len(w.reactionsQueue) > 0 /\ ~w.reactionsScheduled
  THEN [flushReactions(w) EXCEPT !.g = notifyWatchers(@, "left")]
  ELSE w

\* the end of updateAppDbWithPatches: one flush for all the queued roots
scheduleFlush(w) ==
  IF Len(w.reactionsQueue) > 0 /\ ~w.reactionsScheduled
  THEN scheduleAfterRender([w EXCEPT !.reactionsScheduled = TRUE],
                           "flush-reactions")
  ELSE w

updateAppDbWithPatches(w, newDb, patches) ==
  IF Len(patches) > 0
  THEN scheduleFlush(queueRoots(note([w EXCEPT !.appDb = newDb],
                                     "replace", 0, None),
                                patches, 1))
  ELSE w

\* doFxInterceptor.after, first statement
commit(r) ==
  [r EXCEPT !.w = note(updateAppDbWithPatches(r.w, r.ctx.newDb,
                                              r.ctx.patches),
                       "commit", r.ctx.event.id, "do-fx")]

\* one entry of the effects list: [key, val]
doEffect(w, effect, id) ==
  IF Len(effect) # 2 THEN w
  ELSE LET key == effect[1]
           val == effect[2]
       IN CASE key \notin Effects -> note(w, "fx-missing", id, key)
            [] key \in {"note", "stamp"} -> note(w, "fx", id, key)
            [] key = "bad" -> note(note(w, "fx", id, key), "fx-error", id, key)
            [] key = "dispatch" -> dispatch(note(w, "fx", id, key), val)

RECURSIVE doEffects(_, _, _, _)

\* mutant of doEffects: the batch ends at the first effect handler that throws
stopAtError(w, effects, i, id) ==
  IF i > Len(effects) THEN w
  ELSE IF Len(w.trace) > 0 /\ w.trace[Len(w.trace)].op = "fx-error" THEN w
  ELSE doEffects(doEffect(w, effects[i], id), effects, i + 1, id)

doEffects(w, effects, i, id) ==
  IF i > Len(effects) THEN w
  ELSE doEffects(doEffect(w, effects[i], id), effects, i + 1, id)

\* doFxInterceptor.after, the effects.filter(...).forEach(...)
runEffects(r) ==
  [r EXCEPT !.w = doEffects(r.w, r.ctx.effects, 1, r.ctx.event.id)]

effectsFirst(r) == commit(runEffects(r))

doFxAfter(r) == runEffects(commit(r))

\* interceptor[direction] is defined
hasFn(interceptor, direction) ==
  CASE interceptor = "do-fx" -> direction = "after"
    [] interceptor = "inject-global-interceptors" -> direction = "before"
    [] interceptor = "fx-handler" -> direction = "before"
    [] interceptor = "bad-after" -> direction = "after"
    [] interceptor = "trim" -> direction = "before"
    [] interceptor = "log" -> TRUE
    [] interceptor = "audit" -> TRUE
    [] interceptor = "stamp" -> TRUE

\* interceptor[direction](context)
callFn(r, interceptor, direction) ==
  CASE interceptor = "do-fx" -> doFxAfter(r)
    [] interceptor = "inject-global-interceptors" ->
         [r EXCEPT !.ctx.queue = getGlobalInterceptors \o @]
    [] interceptor = "fx-handler" -> eventHandlerBefore(r)
    [] interceptor = "bad-after" -> [r EXCEPT !.exc = Thrown]
    [] interceptor = "trim" -> r
    [] interceptor = "log" -> r
    [] interceptor = "audit" -> r
    [] interceptor = "stamp" ->
         IF direction = "after"
         THEN [r EXCEPT !.ctx.effects = Append(@, <<"stamp", 0>>)]
         ELSE r

wrapException(r, out, interceptor, direction) ==
  IF out.exc.thrown /\ ~r.ctx.originalException
  THEN exceptionToExInfo(out.exc, interceptor, direction)
  ELSE out.exc

\* the catch block of invokeInterceptorFn
fnReturned(r, out, interceptor, direction) ==
  IF out.exc.thrown
  THEN [out EXCEPT !.w = note(@, "throw", r.ctx.event.id, interceptor),
                   !.exc = wrapException(r, out, interceptor, direction)]
  ELSE out

invokeInterceptorFn(r, interceptor, direction) ==
  IF ~hasFn(interceptor, direction) THEN r
  ELSE fnReturned(r,
                  callFn([r EXCEPT !.w = note(@, direction, r.ctx.event.id,
                                              interceptor)],
                         interceptor, direction),
                  interceptor, direction)

skipsOnThrow(r) == FALSE

stopsOnThrow(r) == r.exc.thrown

RECURSIVE invokeInterceptors(_, _)
invokeInterceptors(r, direction) ==
  IF stopsOnThrow(r) \/ Len(r.ctx.queue) = 0 THEN r
  ELSE LET next == Head(r.ctx.queue)
           rest == Tail(r.ctx.queue)
       IN invokeInterceptors(
            invokeInterceptorFn(
              [r EXCEPT !.ctx.queue = rest,
                        !.ctx.stack = IF direction = "before"
                                      THEN Append(@, next) ELSE @],
              next, direction),
            direction)

\* mutant of Reverse: the stack is replayed in the order it was built
sameOrder(s) == s

\* [...context.stack].reverse()
Reverse(s) == [i \in 1..Len(s) |-> s[Len(s) + 1 - i]]

changeDirection(r) ==
  [r EXCEPT !.ctx.queue = Reverse(r.ctx.stack), !.ctx.stack = <<>>]

\* the second half of executeInterceptors
afterPhase(ctxAfterBeforePhase) ==
  IF stopsOnThrow(ctxAfterBeforePhase) THEN ctxAfterBeforePhase
  ELSE invokeInterceptors(changeDirection(ctxAfterBeforePhase), "after")

executeInterceptors(r) == afterPhase(invokeInterceptors(r, "before"))

\* errorHandler(e.cause || e, reflexError): the history keeps the two
\* arguments; the default handler logs and re-throws the original error
callErrorHandler(r) ==
  [r EXCEPT !.w.trace =
              Append(@, [op |-> "error-handler", id |-> r.ctx.event.id,
                         ic |-> r.exc.interceptor, db |-> r.w.appDb,
                         pending |-> r.w.reactionsQueue,
                         original |-> IF r.exc.wrapped THEN r.exc.cause
                                      ELSE r.exc,
                         data |-> mergeExData(r.exc, r.ctx.event)]),
            !.exc = IF r.w.errorHandler = "default" THEN Thrown ELSE NoExc]

\* mutant of caught: the exception passes the error handler by
uncaught(out, ctx) == out

\* the catch block of execute: the handler is given the error, and the
\* original context is returned if it does not throw
caught(out, ctx) ==
  IF out.exc.thrown THEN callErrorHandler([out EXCEPT !.ctx = ctx]) ELSE out

execute(w, eventV, interceptors) ==
  IF w.errorHandler = None
  THEN executeInterceptors(
         [w |-> w,
          ctx |-> [createContext(eventV, interceptors)
                     EXCEPT !.originalException = TRUE],
          exc |-> NoExc])
  ELSE caught(executeInterceptors(
                [w |-> w, ctx |-> createContext(eventV, interceptors),
                 exc |-> NoExc]),
              createContext(eventV, interceptors))

\* handle returns, or the exception leaves it
handleEnd(out, eventV) ==
  [w |-> note(out.w, "handle-end", eventV.id, eventV.kind),
   thrown |-> out.exc.thrown]

\* events.ts handle(eventV): the queue's eventHandler
handle(w, eventV) ==
  IF eventV.kind \notin Registered
  THEN [w |-> note([note(w, "handle", eventV.id, eventV.kind)
                      EXCEPT !.handled = Append(@, eventV.id)],
                   "no-handler", eventV.id, eventV.kind),
        thrown |-> FALSE]
  ELSE handleEnd(
         execute([note(w, "handle", eventV.id, eventV.kind)
                    EXCEPT !.handled = Append(@, eventV.id)],
                 eventV, handleInterceptors(eventV.kind)),
         eventV)

\* ------------------------------------------------- the queue's own methods
addFirst(q, e) == <<e>> \o q

\* this.queue.push(event)
addLast(q, e) == Append(q, e)

addEvent(w, event) ==
  [w EXCEPT !.queue = addLast(@, [id |-> Len(w.dispatched) + 1,
                                  kind |-> event.kind, meta |-> event.meta]),
            !.dispatched = Append(@, event)]

\* laterFns.yield(() => this.fsmTrigger('run-queue'))
\* mutant of runNextTick: the drain callback is given to the hook twice
runTwice(w) ==
  scheduleNextTick(scheduleNextTick(w, "run-queue"), "run-queue")

\* mutant of runNextTick: the drain callback is not given to the hook
runNever(w) == w

runNextTick(w) == scheduleNextTick(w, "run-queue")

keepsQueue(w, ex) == note(w, "exception", 0, None)

\* exception(ex): purge and log; failed and purged remember who was queued
exception(w, ex) ==
  LET ids == [i \in 1..Len(w.queue) |-> w.queue[i].id]
      first == IF Len(ids) = 0 THEN {} ELSE {Head(ids)}
  IN note(purge([w EXCEPT !.failed = @ \cup first,
                          !.purged = @ \cup (Range(ids) \ first)]),
          "exception", 0, None)

\* the rest of processFirstEvent: queue.shift(), or the catch block
eventHandlerReturned(out) ==
  IF out.thrown THEN fsmTrigger(out.w, "exception", None)
  ELSE [out.w EXCEPT !.queue = Tail(@)]

processFirstEvent(w) ==
  IF Len(w.queue) = 0
  THEN \* handle(undefined) reads eventV[0] and throws, inside the try
       fsmTrigger(note(w, "type-error", 0, "handle"), "exception", None)
  ELSE eventHandlerReturned(handle(w, Head(w.queue)))

\* mutant of laterKeyOf: the last recognised key is taken
lastKeyOf(event) ==
  LET hits == SelectSeq(event.meta, LAMBDA k : k \in DOMAIN laterFns)
  IN IF Len(hits) = 0 THEN None ELSE hits[Len(hits)]

\* metaKeys.find(k => laterFns[k])
laterKeyOf(event) ==
  LET hits == SelectSeq(event.meta, LAMBDA k : k \in DOMAIN laterFns)
  IN IF Len(hits) = 0 THEN None ELSE Head(hits)

\* mutant of runQueueLoop: the loop runs until the queue is empty
RECURSIVE drainAll(_, _)
drainAll(w, n) ==
  IF Len(w.queue) > 0
  THEN LET nextEvent == Head(w.queue)
           laterKey == laterKeyOf(nextEvent)
       IN IF laterKey # None THEN fsmTrigger(w, "pause", laterKey)
          ELSE drainAll(processFirstEvent(w), n - 1)
  ELSE fsmTrigger(w, "finish-run", None)

\* the while loop of runQueue, n events left to look at
RECURSIVE runQueueLoop(_, _)
runQueueLoop(w, n) ==
  IF n > 0
  THEN IF Len(w.queue) = 0
       THEN \* nextEvent is undefined: reading nextEvent.meta throws, uncaught
            note(w, "type-error", 0, "runQueue")
       ELSE LET nextEvent == Head(w.queue)
                laterKey == laterKeyOf(nextEvent)
            IN IF laterKey # None THEN fsmTrigger(w, "pause", laterKey)
               ELSE runQueueLoop(processFirstEvent(w), n - 1)
  ELSE fsmTrigger(w, "finish-run", None)

runQueue(w) == runQueueLoop(w, Len(w.queue))

\* mutant of pause: the resume callback is not given to the hook
pauseForgets(w, laterKey) == w

pause(w, laterKey) ==
  IF laterFns[laterKey] = "scheduleAfterRender"
  THEN scheduleAfterRender(w, "resume")
  ELSE scheduleNextTick(w, "resume")

resumeDropsHead(w) == runQueue([w EXCEPT !.queue = Tail(@)])

resume(w) == runQueue(processFirstEvent(w))

fsmTrigger(w, trigger, arg) ==
  LET t == <<w.fsmState, trigger>>
  IN CASE t = <<"idle", "add-event">> ->
            runNextTick(addEvent(transition(w, trigger, "scheduled"), arg))
       [] t = <<"scheduled", "add-event">> ->
            addEvent(transition(w, trigger, "scheduled"), arg)
       [] t = <<"scheduled", "run-queue">> ->
            runQueue(transition(w, trigger, "running"))
       [] t = <<"running", "add-event">> ->
            addEvent(transition(w, trigger, "running"), arg)
       [] t = <<"running", "pause">> ->
            pause(transition(w, trigger, "paused"), arg)
       [] t = <<"running", "exception">> ->
            exception(transition(w, trigger, "idle"), arg)
       [] t = <<"running", "finish-run">> ->
            IF finishState(w) = "idle" THEN transition(w, trigger, "idle")
            ELSE runNextTick(transition(w, trigger, "scheduled"))
       [] t = <<"paused", "add-event">> ->
            addEvent(transition(w, trigger, "paused"), arg)
       [] t = <<"paused", "resume">> -> resume(transition(w, trigger, "running"))
       [] OTHER -> note(w, "not-found", 0, trigger)

\* ------------------------------------------------- the graph's actions
NoCount == [n \in Reactions |-> 0]

\* A wave is one task of the host: a block of synchronous API calls, then the
\* microtasks it queued, run to completion.  The histories cover one wave.
G ==
  [rx |-> rx, micro |-> microtasks, marks |-> marks, cnt |-> cnt,
   notes |-> notes, step |-> <<>>, eq |-> {}, bumped |-> bumped,
   log |-> errors, exc |-> FALSE]

\* the error history after the callback on n: an exception that is still
\* propagating when the callback ends reaches its caller (the host, for a
\* microtask)
hostLog(g, n) ==
  IF g.exc THEN Append(g.log, logged("thrown", n, "-")) ELSE g.log

\* the value of n computed from the current source
RECURSIVE Fresh(_)
Fresh(n) == computeFn(n, [i \in 1..Len(deps[n]) |-> Fresh(deps[n][i])])

\* the watchers the calls of step gave their node's current value
Paid(step) ==
  {[node |-> step[i].node, cb |-> step[i].cb] :
     i \in {j \in 1..Len(step) : step[j].value = Fresh(step[j].node)}}

\* what is still owed after a callback that left the reactions as g: a watcher
\* that was called with the current value, or removed, is owed nothing
stillOwed(g) ==
  {o \in owed \ Paid(g.step) : Contains(g.rx[o.node].watchers, o.cb)}

\* the watchers whose node's output a commit to newDb changes: each output of
\* the diamond is a one-to-one function of the key count
owing(newDb) ==
  IF newDb.count = appDb.count THEN {}
  ELSE {o \in [node : Nodes, cb : Callbacks] :
          Contains(rx[o.node].watchers, o.cb)}

TotalWatchers == LET Sum[S \in SUBSET Nodes] ==
                       IF S = {} THEN 0
                       ELSE LET n == CHOOSE x \in S : TRUE
                            IN Len(rx[n].watchers) + Sum[S \ {n}]
                 IN Sum[Nodes]

VersionsBelowMax == \A n \in Nodes : rx[n].version < MaxVersion

\* a synchronous API call can be made between callbacks, not during the drain
CanCall == ~draining /\ Len(task) < MaxCalls

\* the state after a call that left the objects as g
Store(g, op, n) ==
  /\ rx' = g.rx
  /\ microtasks' = g.micro
  /\ marks' = g.marks
  /\ cnt' = g.cnt
  /\ notes' = g.notes
  /\ stepNotes' = g.step
  /\ eqOut' = g.eq
  /\ task' = Append(task, [op |-> op, node |-> n])
  /\ bumped' = g.bumped
  /\ errors' = hostLog(g, n)
  /\ owed' = stillOwed(g)
  /\ UNCHANGED faulty

\* the value the root reads is replaced (the tests' baseValue = v, initAppDb)
SetSource(v) ==
  /\ CanCall
  /\ v # appDb.count
  /\ appDb' = [appDb EXCEPT !.count = v]
  /\ Store(G, "setSource", "base")
  /\ UNCHANGED <<draining, evars>>

\* a task may end with one more markDirty() after its other calls
CanMark == ~draining /\ Len(task) <= MaxCalls

\* markDirty() is called from outside on root reactions only: by the db bridge
\* (updateAppDbWithPatches) and, in every test, on a reaction without deps
CallMarkDirty(n) ==
  /\ CanMark
  /\ isRoot(n)
  /\ VersionsBelowMax
  /\ Store(markDirty(G, n), "markDirty", n)
  /\ UNCHANGED <<appDb, draining, evars>>

\* the callbacks are interchangeable: a node gets cb2 only on top of cb1
CallWatch(n, cb) ==
  /\ CanCall
  /\ ~Contains(rx[n].watchers, cb)
  /\ cb = "cb2" => Contains(rx[n].watchers, "cb1")
  /\ TotalWatchers < MaxWatch
  /\ Store(watch(G, n, cb), "watch", n)
  /\ UNCHANGED <<appDb, draining, evars>>

CallUnwatch(n, cb) ==
  /\ CanCall
  /\ Contains(rx[n].watchers, cb)
  /\ Store(unwatch(G, n, cb), "unwatch", n)
  /\ UNCHANGED <<appDb, draining, evars>>

CallComputeValue(n) ==
  /\ CanCall
  /\ VersionsBelowMax
  /\ Store(computeValue(G, n), "computeValue", n)
  /\ UNCHANGED <<appDb, draining, evars>>

\* the host runs the oldest microtask; the queue drains before any other call
RunMicrotask ==
  /\ microtasks # <<>>
  /\ LET g == recomputeTask([G EXCEPT !.micro = Tail(microtasks)],
                             Head(microtasks))
     IN /\ rx' = g.rx
        /\ microtasks' = g.micro
        /\ marks' = g.marks
        /\ bumped' = g.bumped
        /\ cnt' = g.cnt
        /\ notes' = g.notes
        /\ stepNotes' = g.step
        /\ eqOut' = g.eq
        /\ errors' = hostLog(g, Head(microtasks))
        /\ owed' = stillOwed(g)
  /\ draining' = TRUE
  /\ UNCHANGED <<appDb, task, faulty, evars>>

\* the task is over: its calls returned and its microtasks ran
EndTask ==
  /\ microtasks = <<>>
  /\ task # <<>>
  /\ draining' = FALSE
  /\ task' = <<>>
  /\ bumped' = {}
  /\ marks' = NoCount
  /\ cnt' = NoCount
  /\ notes' = <<>>
  /\ stepNotes' = <<>>
  /\ eqOut' = {}
  /\ errors' = <<>>
  /\ UNCHANGED <<appDb, rx, microtasks, faulty, owed, evars>>

GraphStart ==
  /\ appDb = InitialDb
  /\ rx = [n \in Reactions |-> NewReaction]
  /\ microtasks = <<>>
  /\ draining = FALSE
  /\ task = <<>>
  /\ bumped = {}
  /\ marks = NoCount
  /\ cnt = NoCount
  /\ notes = <<>>
  /\ stepNotes = <<>>
  /\ eqOut = {}
  /\ errors = <<>>
  /\ owed = {}

\* new EventQueue(handle), the db module's initialisers, and the error handler h
QueueStart(h) ==
  /\ fsmState = "idle"
  /\ queue = <<>>
  /\ tickQ = <<>>
  /\ renderQ = <<>>
  /\ reactionsQueue = <<>>
  /\ reactionsScheduled = FALSE
  /\ errorHandler = h
  /\ dispatched = <<>>
  /\ handled = <<>>
  /\ failed = {}
  /\ purged = {}
  /\ trace = <<>>

\* events.ts registers defaultErrorHandler when the module is loaded
GraphInit == GraphStart /\ faulty = FALSE /\ QueueStart("default")

\* the same, with the throwing compute function and watcher registered
FaultsInit == GraphStart /\ faulty = TRUE /\ QueueStart("default")

GraphNext ==
  \/ \E v \in SourceVals : SetSource(v)
  \/ \E n \in Nodes : CallMarkDirty(n)
  \/ \E n \in Nodes, cb \in Callbacks : CallWatch(n, cb)
  \/ \E n \in Nodes, cb \in Callbacks : CallUnwatch(n, cb)
  \/ \E n \in Nodes : CallComputeValue(n)
  \/ RunMicrotask
  \/ EndTask

SpecGraph == GraphInit /\ [][GraphNext]_vars

SpecFaults == FaultsInit /\ [][GraphNext]_vars

\* ------------------------------------------------ the queue's actions
\* the events the application dispatches, and how many events each one adds
Dispatchable ==
  {[kind |-> k, meta |-> <<>>] :
     k \in {"inc", "fx", "boom", "spawn-boom", "guarded", "noop", "ghost"}}
  \cup {[kind |-> "inc", meta |-> <<"flush">>],
        [kind |-> "inc", meta |-> <<"yield">>],
        [kind |-> "inc", meta |-> <<"debug">>],
        [kind |-> "boom", meta |-> <<"debug", "flush", "yield">>],
        Invalid}

Cost(event) ==
  CASE event.kind \in {"fx", "spawn-boom"} -> 2
    [] event.kind = None -> 0
    [] OTHER -> 1

W ==
  [fsmState |-> fsmState, queue |-> queue, tickQ |-> tickQ,
   renderQ |-> renderQ, appDb |-> appDb, reactionsQueue |-> reactionsQueue,
   reactionsScheduled |-> reactionsScheduled, errorHandler |-> errorHandler,
   dispatched |-> dispatched, handled |-> handled, failed |-> failed,
   purged |-> purged, g |-> G, trace |-> <<>>]

\* the state after a callback that left the queue, the store and the bridge as w
StoreW(w) ==
  /\ fsmState' = w.fsmState
  /\ queue' = w.queue
  /\ tickQ' = w.tickQ
  /\ renderQ' = w.renderQ
  /\ appDb' = w.appDb
  /\ reactionsQueue' = w.reactionsQueue
  /\ reactionsScheduled' = w.reactionsScheduled
  /\ dispatched' = w.dispatched
  /\ handled' = w.handled
  /\ failed' = w.failed
  /\ purged' = w.purged
  /\ trace' = w.trace
  /\ IF w.g = G
     THEN /\ owed' = owed \cup owing(w.appDb)
          /\ UNCHANGED <<rx, microtasks, task, bumped, marks, cnt, notes,
                         stepNotes, eqOut, errors, faulty>>
     ELSE Store(w.g, "flush", "base")
  /\ UNCHANGED <<errorHandler, draining>>

\* the host starts a new task only when the last one and its microtasks are over
HostIdle == ~draining /\ task = <<>> /\ microtasks = <<>>

\* the application calls dispatch(event)
Dispatch(event) ==
  /\ HostIdle
  /\ Len(dispatched) + Cost(event) <= MaxEvents
  /\ StoreW(dispatch(W, event))

\* the host runs the oldest callback given to scheduleNextTick
TickCallback ==
  /\ HostIdle
  /\ Len(tickQ) > 0
  /\ StoreW(fsmTrigger([W EXCEPT !.tickQ = Tail(@)], Head(tickQ), None))

\* the host runs the oldest callback given to scheduleAfterRender: a resume
RenderCallback ==
  /\ HostIdle
  /\ Len(renderQ) > 0
  /\ Head(renderQ) = "resume"
  /\ StoreW(fsmTrigger([W EXCEPT !.renderQ = Tail(@)], "resume", None))

\* the host runs the oldest callback given to scheduleAfterRender: the flush
\* the bridge scheduled in updateAppDbWithPatches
FlushReactions ==
  /\ HostIdle
  /\ Len(renderQ) > 0
  /\ Head(renderQ) = "flush-reactions"
  /\ StoreW(flushReactions([W EXCEPT !.renderQ = Tail(@)]))

\* the application reads a watched node through the forced path in a task of
\* its own while the flush of a commit is still to come
ReadBeforeFlush(n) ==
  /\ reactionsScheduled
  /\ Len(rx[n].watchers) > 0
  /\ task = <<>>
  /\ CallComputeValue(n)

\* the first step of useSubscription: the component's state is initialised by
\* a forced read of a node that nobody has read or watched yet
FirstRead(n) ==
  /\ task = <<>>
  /\ rx[n].watchers = <<>>
  /\ rx[n].value = Undefined
  /\ CallComputeValue(n)

EventsInit ==
  /\ GraphStart
  /\ faulty = FALSE
  /\ \E h \in ErrorHandlers : QueueStart(h)

EventsNext ==
  \/ \E event \in Dispatchable : Dispatch(event)
  \/ TickCallback
  \/ RenderCallback
  \/ FlushReactions
  \/ CallWatch("left", "cb1")
  \/ RunMicrotask
  \/ EndTask

SpecEvents == EventsInit /\ [][EventsNext]_vars

\* the bridge between the store and the graph: commits by events that cannot
\* fail, the deferred flush, and a component that subscribes to a node
\* (useSubscription: forced read, then watch) or reads it again
BridgeEvents == {[kind |-> k, meta |-> <<>>] : k \in {"inc", "noop"}}

\* the second step of useSubscription: the effect registers the watcher
Subscribe(n, cb) ==
  /\ task = <<>>
  /\ CallWatch(n, cb)

\* the effect's cleanup removes the watcher again
Unsubscribe(n, cb) ==
  /\ task = <<>>
  /\ CallUnwatch(n, cb)

BridgeInit ==
  /\ GraphStart
  /\ faulty = FALSE
  /\ QueueStart("default")

BridgeNext ==
  \/ \E event \in BridgeEvents : Dispatch(event)
  \/ TickCallback
  \/ FlushReactions
  \/ \E n \in {"left", "top"} : Subscribe(n, "cb1")
  \/ \E n \in {"left", "top"} : Unsubscribe(n, "cb1")
  \/ \E n \in {"left", "top"} : ReadBeforeFlush(n)
  \/ \E n \in {"left", "top"} : FirstRead(n)
  \/ RunMicrotask
  \/ EndTask

SpecBridge == BridgeInit /\ [][BridgeNext]_vars

\* the queue under hosts whose scheduling hooks run every callback they were
\* given: the tick, the after-render callbacks and the microtasks are not
\* postponed for ever; nothing obliges the application to dispatch
\* The conjuncts are weak fairness of each callback, with ENABLED written out
\* as the callback's guard (each callback changes the state when it runs).
TickReady == HostIdle /\ Len(tickQ) > 0

RenderReady == HostIdle /\ Len(renderQ) > 0 /\ Head(renderQ) = "resume"

FlushReady == HostIdle /\ Len(renderQ) > 0 /\ Head(renderQ) = "flush-reactions"

HostsRun ==
  /\ ([]<>(~TickReady) \/ []<><<TickCallback>>_vars)
  /\ ([]<>(~RenderReady) \/ []<><<RenderCallback>>_vars)
  /\ ([]<>(~FlushReady) \/ []<><<FlushReactions>>_vars)
  /\ ([]<>(microtasks = <<>>) \/ []<><<RunMicrotask>>_vars)
  /\ WF_vars(EndTask)

\* events with and without a pause, and events whose handlers throw
LiveEvents ==
  {[kind |-> k, meta |-> <<>>] :
     k \in {"inc", "fx", "noop", "ghost", "boom", "spawn-boom"}}
  \cup {[kind |-> "inc", meta |-> <<"flush">>],
        [kind |-> "inc", meta |-> <<"yield">>]}

LiveNext ==
  \/ \E event \in LiveEvents : Dispatch(event)
  \/ TickCallback
  \/ RenderCallback
  \/ FlushReactions
  \/ CallWatch("left", "cb1")
  \/ RunMicrotask
  \/ EndTask

SpecLive == BridgeInit /\ [][LiveNext]_vars /\ HostsRun


\* --------------------------------------------- properties of the queue
\* handlers that let an exception reach the queue (unless it is swallowed)
Throwing == {"boom", "spawn-boom", "guarded"}

NoneThrows == \A i \in 1..Len(dispatched) : dispatched[i].kind \notin Throwing

NoPauses == \A i \in 1..Len(dispatched) : laterKeyOf(dispatched[i]) = None

\* the ids 1..k in the order of the pushes
InPushOrder(ids) == ids = [i \in 1..Len(ids) |-> i]

Count(kind) == Len(SelectSeq(dispatched, LAMBDA e : e.kind = kind))

TraceOps(op) == SelectSeq(trace, LAMBDA x : x.op = op)

HasOp(op) == Len(TraceOps(op)) > 0

\* C1: pushed events without scheduling metadata whose handlers do not throw
\* are handled once each, in the order of the pushes; when the queue is idle
\* again all of them were handled and the store holds every increment
C1_FifoExactlyOnce ==
  (NoneThrows /\ NoPauses) =>
    /\ InPushOrder(handled)
    /\ Len(handled) <= Len(dispatched)
    /\ fsmState = "idle" =>
         /\ Len(handled) = Len(dispatched)
         /\ appDb.count = InitialDb.count + Count("inc")

\* three inc events dispatched before the drain: one callback handles the
\* three, in order, and the count is 3
C1_Witness ==
  /\ dispatched = <<incEvent, incEvent, incEvent>>
  /\ handled = <<1, 2, 3>>
  /\ Len(TraceOps("handle")) = 3
  /\ fsmState = "idle"
  /\ appDb.count = InitialDb.count + 3

\* C2: the callback in which handle() threw leaves the queue empty and the
\* FSM idle; the events discarded behind the failing one are never handled
\* and the failing one is handled once
C2_ExceptionPurgesAll ==
  /\ HasOp("exception") => Len(queue) = 0 /\ fsmState = "idle"
  /\ \A i \in purged : ~Contains(handled, i)
  /\ \A i \in failed : Occurrences(handled, i) = 1

\* the first event dispatched a child and threw with another event behind it
C2_Witness ==
  /\ HasOp("exception")
  /\ dispatched[1].kind = "spawn-boom"
  /\ failed = {1}
  /\ purged = {2, 3}
  /\ handled = <<1>>

\* the trace lines of event id between its handle and its handle-end
Between(i, k) == {j \in i..k : trace[j].id = trace[i].id}

\* C3: a pipeline in which a phase threw leaves the store as it was at its
\* start and never reaches the commit; the store changes only where the
\* commit replaces it, first thing in do-fx's after phase
C3_ThrowLeavesStoreUnchanged ==
  /\ \A i \in 1..Len(trace), k \in 1..Len(trace) :
       ( /\ i < k
         /\ trace[i].op = "handle"
         /\ trace[k].op = "handle-end"
         /\ trace[k].id = trace[i].id
         /\ \E j \in Between(i, k) : trace[j].op = "throw" )
       => /\ trace[k].db = trace[i].db
          /\ \A j \in Between(i, k) : trace[j].op # "commit"
  /\ \A j \in 2..Len(trace) :
       trace[j].db # trace[j - 1].db =>
         /\ trace[j].op = "replace"
         /\ trace[j - 1].op = "after" /\ trace[j - 1].ic = "do-fx"

\* one drain in which the handler of one event threw on its mutated draft
\* and an after phase of another threw behind a handler that had returned
C3_Witness ==
  /\ \E j \in 1..Len(trace) : trace[j].op = "throw" /\ trace[j].ic = "fx-handler"
  /\ \E j \in 1..Len(trace) : trace[j].op = "throw" /\ trace[j].ic = "bad-after"
  /\ HasOp("handle-end")

\* C4: an effect handler of an event runs after that event's commit: the
\* store it sees is the snapshot the commit installed, and a changed count
\* is already in the bridge's pending set
C4_EffectsAfterCommit ==
  \A j \in 1..Len(trace) :
    trace[j].op \in {"fx", "fx-missing"} =>
      \E h \in 1..j, c \in 1..j :
        /\ h < c
        /\ trace[h].op = "handler" /\ trace[h].id = trace[j].id
        /\ trace[c].op = "commit" /\ trace[c].id = trace[j].id
        /\ trace[j].db = trace[c].db
        /\ trace[h].ic = "inc" => trace[c].db.count = trace[h].db.count + 1
        /\ trace[c].db.count # trace[h].db.count =>
             Contains(trace[j].pending, "count")

\* an effect of an inc event ran, after a commit that changed the count
C4_Witness ==
  \E j \in 1..Len(trace), h \in 1..Len(trace) :
    /\ trace[j].op = "fx"
    /\ trace[h].op = "handler" /\ trace[h].ic = "inc"
    /\ trace[h].id = trace[j].id
    /\ trace[j].db.count = trace[h].db.count + 1

QueueIds == [i \in 1..Len(queue) |-> queue[i].id]

\* C10: with flush and yield pauses and no exception, the handled events are
\* still the first pushed, in the order of the pushes, and the events still
\* queued are the rest, in that order
C10_PausesKeepOrder ==
  NoneThrows =>
    /\ InPushOrder(handled)
    /\ QueueIds = [i \in 1..Len(queue) |-> Len(handled) + i]
    /\ Len(handled) + Len(queue) = Len(dispatched)

\* three events, one of them paused in front of another, all handled in order
C10_Witness ==
  /\ NoneThrows
  /\ Len(dispatched) = 3
  /\ \E i \in 1..2 : laterKeyOf(dispatched[i]) # None
  /\ handled = <<1, 2, 3>>
  /\ fsmState = "idle"

\* the FSM's state changes made by a callback, in order
FsmRows(tr) == SelectSeq(tr, LAMBDA x : x.op = "fsm")

\* the first of an event's metadata keys that requests a later slice
FirstRequest(event) ==
  LET hits == SelectSeq(event.meta, LAMBDA k : k \in {"flush", "yield"})
  IN IF Len(hits) = 0 THEN None ELSE Head(hits)

\* the pending resume callbacks, per hook
Resumes(ticks, renders) ==
  [yield |-> Occurrences(ticks, "resume"),
   flush |-> Occurrences(renders, "resume")]

\* C11: a drain that meets a head event requesting a later slice pauses
\* without handling it and registers one resume callback with the hook of the
\* event's first recognised key; the resume callback handles that event
\* first and then drains the rest
C11_PauseThenResume ==
  [][evars' # evars =>
       /\ (\E i \in 1..Len(trace') : trace'[i].op = "fsm" /\ trace'[i].ic = "pause")
            => /\ fsmState' = "paused"
               /\ Len(queue') > 0
               /\ FirstRequest(Head(queue')) # None
               /\ ~Contains(handled', Head(queue').id)
               /\ Resumes(tickQ', renderQ') =
                    [k \in {"flush", "yield"} |->
                       IF k = FirstRequest(Head(queue')) THEN 1 ELSE 0]
       /\ fsmState' = "paused" <=>
            Resumes(tickQ', renderQ').yield + Resumes(tickQ', renderQ').flush = 1
       /\ (Len(trace') > 0 /\ trace'[1].op = "fsm" /\ trace'[1].ic = "resume")
            => /\ fsmState = "paused"
               /\ trace'[1].to = "running"
               /\ Len(trace') > 1
               /\ trace'[2].op = "handle" /\ trace'[2].id = Head(queue).id
               /\ Len(handled') > Len(handled)
               /\ handled'[Len(handled) + 1] = Head(queue).id
               /\ \/ \E i \in 1..Len(trace') : trace'[i].op = "exception"
                  \/ /\ fsmState' = "paused"
                     /\ Head(queue').id # Head(queue).id
                     /\ \A i \in 1..Len(queue) :
                          queue[i].id < Head(queue').id
                            => Contains(handled', queue[i].id)
                  \/ /\ fsmState' \in {"idle", "scheduled"}
                     /\ \A i \in 1..Len(queue) :
                          Contains(handled', queue[i].id)]_vars

\* a resume callback handled the event that had asked to yield and then the
\* event queued behind it
C11_Witness ==
  /\ Len(trace) > 0
  /\ trace[1].op = "fsm" /\ trace[1].ic = "resume"
  /\ dispatched[1].meta = <<"yield">>
  /\ handled = <<1, 2>>
  /\ Len(TraceOps("handle")) = 2
  /\ fsmState = "idle"

\* the spec's transition table: state, trigger, new state
TableRow(x) ==
  \/ x.from = "idle" /\ x.ic = "add-event" /\ x.to = "scheduled"
  \/ x.from = "scheduled" /\ x.ic = "add-event" /\ x.to = "scheduled"
  \/ x.from = "scheduled" /\ x.ic = "run-queue" /\ x.to = "running"
  \/ x.from = "running" /\ x.ic = "add-event" /\ x.to = "running"
  \/ x.from = "running" /\ x.ic = "pause" /\ x.to = "paused"
  \/ x.from = "running" /\ x.ic = "exception" /\ x.to = "idle"
  \/ /\ x.from = "running" /\ x.ic = "finish-run"
     /\ x.to = IF x.qlen = 0 THEN "idle" ELSE "scheduled"
  \/ x.from = "paused" /\ x.ic = "add-event" /\ x.to = "paused"
  \/ x.from = "paused" /\ x.ic = "resume" /\ x.to = "running"

\* the rows lead from state old to state new, each starting where the last ended
Chained(old, rows, new) ==
  IF Len(rows) = 0 THEN new = old
  ELSE /\ rows[1].from = old
       /\ rows[Len(rows)].to = new
       /\ \A i \in 1..(Len(rows) - 1) : rows[i + 1].from = rows[i].to

\* C12: every change of the FSM's state is a row of the transition table;
\* a push in idle enqueues and schedules a drain, a finished drain with
\* events left schedules another, and the state changes in no other way
C12_TransitionTable ==
  [][evars' # evars =>
       /\ \A i \in 1..Len(FsmRows(trace')) : TableRow(FsmRows(trace')[i])
       /\ Chained(fsmState, FsmRows(trace'), fsmState')
       /\ fsmState' \in {"idle", "scheduled", "running", "paused"}
       /\ fsmState' = "scheduled" <=> Occurrences(tickQ', "run-queue") = 1
       /\ (fsmState = "idle" /\ fsmState' = "scheduled")
            => Len(queue') = Len(queue) + 1]_vars

\* a drain handled an event that dispatched another: it finished with the
\* queue not empty and scheduled the next drain
C12_Witness ==
  /\ \E i \in 1..Len(trace) :
       /\ trace[i].op = "fsm" /\ trace[i].ic = "finish-run"
       /\ trace[i].to = "scheduled" /\ trace[i].qlen > 0
  /\ \E i \in 1..Len(trace) :
       trace[i].op = "fsm" /\ trace[i].from = "scheduled" /\ trace[i].to = "running"
  /\ fsmState = "scheduled"
  /\ Len(queue) > 0

\* every exception of a phase is given to the error handler at once
Delivered ==
  \A j \in 1..Len(trace) :
    trace[j].op = "throw" =>
      /\ j < Len(trace)
      /\ trace[j + 1].op = "error-handler"
      /\ trace[j + 1].id = trace[j].id

\* C13 as stated: with any error handler registered, an exception of a phase
\* is delivered to it and the queue goes on: nothing is purged and the events
\* are handled in the order of the pushes
C13_RegisteredHandlerNonFatal ==
  errorHandler # None =>
    /\ Delivered
    /\ failed = {} /\ purged = {}
    /\ InPushOrder(handled)

\* C13, amended: the exception is delivered to the registered handler; it is
\* non-fatal when the handler returns, and fatal (the queue is purged, as
\* with no handler) when the handler throws, as the default handler does
C13_ReturningHandlerNonFatal ==
  /\ errorHandler # None => Delivered
  /\ errorHandler = "swallow" =>
       /\ failed = {} /\ purged = {}
       /\ ~HasOp("exception")
       /\ InPushOrder(handled)
       /\ QueueIds = [i \in 1..Len(queue) |-> Len(handled) + i]
  /\ errorHandler = "default" =>
       \A j \in 1..Len(trace) :
         trace[j].op = "error-handler" =>
           /\ fsmState = "idle" /\ Len(queue) = 0
           /\ \E k \in j..Len(trace) : trace[k].op = "exception"
           /\ trace[j].id \in failed

\* a handler that returns was given the exception of the first event, and the
\* two events behind it were handled in the same drain
C13_Witness ==
  /\ errorHandler = "swallow"
  /\ Len(dispatched) = 3
  /\ dispatched[1] = [kind |-> "boom", meta |-> <<>>]
  /\ HasOp("error-handler")
  /\ handled = <<1, 2, 3>>
  /\ Len(TraceOps("handle")) = 3

\* the phase that was running when row j was written
PhaseOf(j) ==
  LET ps == {p \in 1..j : trace[p].op \in {"before", "after"}}
  IN trace[CHOOSE p \in ps : \A q \in ps : q <= p]

\* C14: when a phase throws and an error handler is registered, the handler
\* is called once, with the original error and a wrapped error whose data
\* names the direction, the throwing interceptor and the event; no phase
\* runs after it, so the event is not committed and none of its effects run
C14_HandlerCalledOnceNoFurtherPhase ==
  errorHandler # None =>
    \A i \in 1..Len(trace), k \in 1..Len(trace) :
      ( /\ i < k
        /\ trace[i].op = "handle"
        /\ trace[k].op = "handle-end"
        /\ trace[k].id = trace[i].id )
      => /\ \A j \in i..k :
              trace[j].op = "throw" =>
                /\ trace[j + 1].op = "error-handler"
                /\ trace[j + 1].original = Thrown
                /\ trace[j + 1].data =
                     [direction |-> PhaseOf(j).op, interceptor |-> trace[j].ic,
                      eventV |-> trace[i].id]
                /\ PhaseOf(j).ic = trace[j].ic
                /\ PhaseOf(j).op \in {"before", "after"}
                /\ \A m \in (j + 2)..k :
                     trace[m].op \notin {"before", "after", "handler",
                                         "replace", "commit", "fx",
                                         "fx-missing", "error-handler"}
                /\ \A m \in i..k : trace[m].op \notin {"replace", "commit", "fx"}
         /\ Cardinality({j \in i..k : trace[j].op = "error-handler"}) =
              Cardinality({j \in i..k : trace[j].op = "throw"})
         /\ Cardinality({j \in i..k : trace[j].op = "throw"}) <= 1

\* one drain in which the handler was given an exception of a before phase
\* (the event handler) and one of an after phase
C14_Witness ==
  /\ errorHandler = "swallow"
  /\ \E j \in 1..Len(trace) :
       /\ trace[j].op = "error-handler"
       /\ trace[j].data.direction = "before"
       /\ trace[j].data.interceptor = "fx-handler"
  /\ \E j \in 1..Len(trace) :
       /\ trace[j].op = "error-handler"
       /\ trace[j].data.direction = "after"
       /\ trace[j].data.interceptor = "bad-after"

\* the interceptors of an event of the given kind in the order they enter the
\* queue: the list given to execute, with the global ones where
\* inject-global-interceptors put them
Chain(kind) ==
  <<"do-fx", "inject-global-interceptors", "audit", "stamp">>
    \o (IF kind = "fx" THEN <<"trim", "log">> ELSE <<>>)
    \o <<"fx-handler">>

\* the interceptors that have a before function, and an after function
WithBefore ==
  {"inject-global-interceptors", "audit", "stamp", "trim", "log", "fx-handler"}

WithAfter == {"do-fx", "audit", "stamp", "log"}

\* the interceptors whose phase of the given direction ran in rows i..k
PhasesRun(i, k, direction) ==
  LET rows == SelectSeq(SubSeq(trace, i, k), LAMBDA x : x.op = direction)
  IN [m \in 1..Len(rows) |-> rows[m].ic]

\* C15: without an error, the before phases run in list order and the after
\* phases in the reverse of it; an interceptor without a phase function is
\* passed over and keeps its place, and the interceptors a before phase put
\* into the queue take part in both phases where they were put
C15_AfterReversesBefore ==
  \A i \in 1..Len(trace), k \in 1..Len(trace) :
    ( /\ i < k
      /\ trace[i].op = "handle"
      /\ trace[k].op = "handle-end"
      /\ trace[k].id = trace[i].id
      /\ \A j \in i..k : trace[j].op # "throw" )
    => /\ PhasesRun(i, k, "before") =
            SelectSeq(Chain(trace[i].ic), LAMBDA x : x \in WithBefore)
       /\ PhasesRun(i, k, "after") =
            SelectSeq([m \in 1..Len(Chain(trace[i].ic)) |->
                         Chain(trace[i].ic)[Len(Chain(trace[i].ic)) + 1 - m]],
                      LAMBDA x : x \in WithAfter)
       /\ \A a \in i..k, b \in i..k :
            (trace[a].op = "after" /\ trace[b].op = "before") => b < a

\* an event with two custom interceptors, one of them without an after
\* function, went through both phases
C15_Witness ==
  \E i \in 1..Len(trace), k \in 1..Len(trace) :
    /\ i < k
    /\ trace[i].op = "handle" /\ trace[i].ic = "fx"
    /\ trace[k].op = "handle-end" /\ trace[k].id = trace[i].id
    /\ PhasesRun(i, k, "before") =
         <<"inject-global-interceptors", "audit", "stamp", "trim", "log",
           "fx-handler">>
    /\ PhasesRun(i, k, "after") = <<"log", "stamp", "audit", "do-fx">>

\* the effect entries of an fx event that are pairs, in list order
FxBatch == <<"bad", "missing", "note", "dispatch", "stamp">>

\* C16: an effect handler that throws is caught and logged for its entry
\* alone: the later effects of the batch still run, in list order, the commit
\* made before them stands, and no exception reaches the queue
C16_EffectErrorIsolated ==
  \A i \in 1..Len(trace), k \in 1..Len(trace) :
    ( /\ i < k
      /\ trace[i].op = "handle"
      /\ trace[k].op = "handle-end"
      /\ trace[k].id = trace[i].id
      /\ \E j \in i..k : trace[j].op = "fx-error" )
    => /\ LET rows == SelectSeq(SubSeq(trace, i, k),
                                LAMBDA x : x.op \in {"fx", "fx-missing"})
          IN [m \in 1..Len(rows) |-> rows[m].ic] = FxBatch
       /\ Cardinality({j \in i..k : trace[j].op = "fx-error"}) = 1
       /\ \A j \in i..k : trace[j].op \notin {"throw", "error-handler"}
       /\ \E c \in i..k :
            /\ trace[c].op = "commit"
            /\ \A j \in c..k : trace[j].db = trace[c].db
            /\ trace[c].db.left = 1
       /\ trace[i].id \notin failed
       /\ \A j \in k..Len(trace) :
            (trace[j].op = "exception") => \E h \in (k + 1)..j : trace[h].op = "handle"

\* the first effect of a batch threw; the effects behind it ran, the last of
\* them dispatched an event, and the queue went on to a next drain
C16_Witness ==
  /\ HasOp("fx-error")
  /\ \E j \in 1..Len(trace), e \in 1..Len(trace) :
       /\ trace[e].op = "fx-error"
       /\ e < j
       /\ trace[j].op = "fx" /\ trace[j].ic = "dispatch"
       /\ trace[j].id = trace[e].id
  /\ appDb.left = 1
  /\ fsmState = "scheduled"
  /\ failed = {}

\* C17: a watcher is called only in a later task than the commit that caused
\* it: the step that calls a watcher runs no part of an event's pipeline and
\* leaves the store alone, a root is marked dirty only by the flush callback,
\* which handles no event, and the value given to the watcher is the one of
\* the committed store
C17_NotifiedAfterEffects ==
  [][/\ Len(notes') > Len(notes) =>
          /\ evars' = evars
          /\ appDb' = appDb
          /\ \A i \in (Len(notes) + 1)..Len(notes') :
               notes'[i].node = "left" => notes'[i].value = 2 * appDb.count
     /\ (\E n \in Reactions : marks'[n] > marks[n]) =>
          /\ trace' = <<>>
          /\ handled' = handled
          /\ appDb' = appDb
          /\ Len(notes') = Len(notes)]_vars

\* two events were committed in one drain; the watcher of the subscription
\* was called once, after the flush, with the value of the second commit
C17_Witness ==
  /\ appDb.count = 2
  /\ handled = <<1, 2>>
  /\ notes = <<[node |-> "left", cb |-> "cb1", value |-> 4]>>
  /\ reactionsQueue = <<>>

\* the registered root reaction of a top-level key
RootOf == [count |-> "base", other |-> "aux"]

\* the flush callbacks of the bridge that are pending
PendingFlushes(renders) == Occurrences(renders, "flush-reactions")

\* C18: however many commits precede the flush, a patched root key is in the
\* pending set once, at most one flush callback is pending, and the flush
\* marks each pending root dirty once and leaves the set empty and the flag
\* cleared
C18_OneFlushPerBatch ==
  [][/\ \A k \in {"count", "left", "other"} : Occurrences(reactionsQueue', k) <= 1
     /\ PendingFlushes(renderQ') = IF reactionsScheduled' THEN 1 ELSE 0
     /\ reactionsScheduled' <=> reactionsQueue' # <<>>
     /\ (reactionsQueue # <<>> /\ reactionsQueue' = <<>>) =>
          /\ ~reactionsScheduled'
          /\ PendingFlushes(renderQ') = 0
          /\ \A k \in DOMAIN RootOf :
               marks'[RootOf[k]] =
                 marks[RootOf[k]] + IF Contains(reactionsQueue, k) THEN 1 ELSE 0
     /\ (\E n \in Reactions : marks'[n] > marks[n]) =>
          reactionsQueue # <<>> /\ reactionsQueue' = <<>>]_vars

\* two commits of the key count and one of the key other preceded one
\* flush, which marked each of the two roots once
C18_Witness ==
  /\ appDb.count = 2
  /\ appDb.other = [a |-> 1, b |-> 1]
  /\ marks["base"] = 1 /\ marks["aux"] = 1
  /\ reactionsQueue = <<>> /\ ~reactionsScheduled
  /\ PendingFlushes(renderQ) = 0

\* the top-level keys whose value differs between two snapshots
Touched(before, after) == {k \in {"count", "left", "other"} : after[k] # before[k]}

\* C19: a commit adds to the pending set exactly the top-level keys it changed
\* that have a registered root, whatever the number and depth of the patches
\* under a key, and the flush marks dirty the roots of the pending keys and
\* no other root
C19_TopLevelKeyGranularity ==
  [][/\ \A h \in 1..Len(trace'), c \in 1..Len(trace') :
          ( /\ h < c
            /\ trace'[h].op = "handler"
            /\ trace'[c].op = "commit"
            /\ trace'[c].id = trace'[h].id )
          => /\ Range(trace'[c].pending) =
                  Range(trace'[h].pending)
                    \cup (Touched(trace'[h].db, trace'[c].db) \cap DOMAIN RootOf)
             /\ {trace'[j].ic : j \in {j \in h..c : trace'[j].op = "patch"}} =
                  Touched(trace'[h].db, trace'[c].db)
             /\ \A k \in DOMAIN RootOf : Occurrences(trace'[c].pending, k) <= 1
     /\ \A k \in DOMAIN RootOf :
          marks'[RootOf[k]] > marks[RootOf[k]] =>
            /\ Contains(reactionsQueue, k)
            /\ marks'[RootOf[k]] = marks[RootOf[k]] + 1]_vars

\* a commit with two patches under the key other and none under count: the
\* flush marked the root of other once and left the root of count alone
C19_Witness ==
  /\ appDb.other = [a |-> 1, b |-> 1]
  /\ appDb.count = 0
  /\ marks["aux"] = 1 /\ marks["base"] = 0
  /\ reactionsQueue = <<>>

\* the trace lines i..k are the pipeline of one event
Pipeline(i, k) ==
  /\ i < k
  /\ trace[i].op = "handle"
  /\ trace[k].op = "handle-end"
  /\ trace[k].id = trace[i].id

\* the lines of i..k where the store is replaced
Replacements(i, k) == {j \in i..k : trace[j].op = "replace"}

\* the lines of i..k where the after phase of do-fx starts
DoFxAfter(i, k) == {j \in i..k : trace[j].op = "after" /\ trace[j].ic = "do-fx"}

\* C25: in the pipeline of an event, the store read at any point before the
\* after phase of do-fx is the snapshot the event started with; the store is
\* replaced at most once, inside that after phase, by a snapshot that differs
\* (the handler produced a patch), and without a replacement the pipeline ends
\* on the snapshot it started with.
C25_SnapshotUntilCommit ==
  \A i \in 1..Len(trace), k \in 1..Len(trace) :
    Pipeline(i, k) =>
      /\ Cardinality(Replacements(i, k)) <= 1
      /\ \A j \in i..k :
           (\A d \in DoFxAfter(i, k) : j <= d) => trace[j].db = trace[i].db
      /\ \A r \in Replacements(i, k) :
           /\ \E d \in DoFxAfter(i, k) : d < r
           /\ trace[r].db # trace[i].db
           /\ r < k /\ trace[r + 1].op = "patch"
           /\ \A j \in r..k : trace[j].db = trace[r].db
      /\ Replacements(i, k) = {} => trace[k].db = trace[i].db

\* the after phases of log and audit read the old snapshot although the
\* handler had returned its draft, and do-fx then replaced the store
C25_Witness ==
  \E i \in 1..Len(trace), k \in 1..Len(trace) :
    /\ Pipeline(i, k)
    /\ \E j \in i..k, a \in i..k, r \in i..k :
         /\ j < a /\ a < r
         /\ trace[j].op = "after" /\ trace[j].ic = "log"
         /\ trace[a].op = "after" /\ trace[a].ic = "audit"
         /\ trace[a].db = trace[i].db
         /\ trace[r].op = "replace" /\ trace[r].db.other = [a |-> 1, b |-> 1]
         /\ trace[i].db.other = [a |-> 0, b |-> 0]

\* the step is a dispatch() that was refused
Refused ==
  trace' # trace /\ Len(trace') = 1 /\ trace'[1].op = "invalid-dispatch"

\* the step is a dispatch() by the application that was accepted
Accepted ==
  /\ dispatched' # dispatched
  /\ trace'[1].op = "fsm" /\ trace'[1].ic = "add-event"

\* C26: dispatch of a value that is not a non-empty array logs an error and
\* leaves the FSM state, the queued events, the scheduled callbacks and the
\* store as they were, and no such value is ever queued; dispatch of a valid
\* vector appends it to the queue, schedules a drain if the FSM was idle, and
\* handles nothing: the store changes only in a scheduled drain or a resume.
C26_DispatchValidatesAndDefers ==
  [][/\ Refused =>
          UNCHANGED <<fsmState, queue, tickQ, renderQ, appDb, dispatched,
                      handled, reactionsQueue, reactionsScheduled>>
     /\ \A i \in 1..Len(queue') : queue'[i].kind # None
     /\ \A i \in 1..Len(dispatched') : dispatched'[i].kind # None
     /\ Accepted =>
          /\ appDb' = appDb /\ handled' = handled /\ renderQ' = renderQ
          /\ \A j \in 1..Len(trace') : trace'[j].op = "fsm"
          /\ Len(queue') = Len(queue) + 1
          /\ SubSeq(queue', 1, Len(queue)) = queue
          /\ queue'[Len(queue')].id = Len(dispatched')
          /\ IF fsmState = "idle"
             THEN fsmState' = "scheduled" /\ tickQ' = Append(tickQ, "run-queue")
             ELSE fsmState' = fsmState /\ tickQ' = tickQ
     /\ appDb' # appDb =>
          /\ Len(trace') > 0 /\ trace'[1].op = "fsm"
          /\ trace'[1].ic \in {"run-queue", "resume"}]_vars

\* an invalid value was dispatched while two events waited for their drain
C26_Witness ==
  /\ Len(trace) = 1 /\ trace[1].op = "invalid-dispatch"
  /\ fsmState = "scheduled" /\ tickQ = <<"run-queue">>
  /\ Len(queue) = 2 /\ Len(dispatched) = 2
  /\ appDb = InitialDb

\* the step is a drain: the run-queue callback found the FSM scheduled and
\* handled something
DrainStep ==
  /\ handled' # handled
  /\ trace'[1].op = "fsm" /\ trace'[1].ic = "run-queue"
  /\ trace'[1].from = "scheduled"

\* the drain of the step paused on an event's metadata
PausedNow ==
  \E j \in 1..Len(trace') : trace'[j].op = "fsm" /\ trace'[j].ic = "pause"

\* a handler of the step's drain let an exception reach the queue
ExceptionNow == \E j \in 1..Len(trace') : trace'[j].op = "exception"

\* the ids the step gave to handle(), in order
HandledNow == SubSeq(handled', Len(handled) + 1, Len(handled'))

IdsOf(q) == [i \in 1..Len(q) |-> q[i].id]

\* C27: a drain that does not pause handles only events that were queued
\* when it started, in order and, unless a handler throws, all of them; the
\* events pushed during the drain are left in the queue; the drain ends with
\* the FSM scheduled and a new drain scheduled if the queue is not empty, and
\* idle if it is.
C27_DrainHandlesOnlyPending ==
  [][(DrainStep /\ ~PausedNow) =>
       /\ Len(HandledNow) <= Len(queue)
       /\ HandledNow = SubSeq(IdsOf(queue), 1, Len(HandledNow))
       /\ \A i \in 1..Len(queue') : queue'[i].id > Len(dispatched)
       /\ ~ExceptionNow =>
            /\ HandledNow = IdsOf(queue)
            /\ IdsOf(queue') =
                 [i \in 1..(Len(dispatched') - Len(dispatched)) |->
                    Len(dispatched) + i]
       /\ fsmState' = IF Len(queue') = 0 THEN "idle" ELSE "scheduled"
       /\ tickQ' = IF Len(queue') = 0 THEN Tail(tickQ)
                   ELSE Append(Tail(tickQ), "run-queue")]_vars

\* a drain of one event whose effect dispatched another: the new event is
\* queued for the next drain, not handled
C27_Witness ==
  /\ Len(trace) > 0 /\ trace[1].op = "fsm" /\ trace[1].ic = "run-queue"
  /\ Len(dispatched) = 3 /\ dispatched[2].kind = "fx"
  /\ handled = <<1, 2>>
  /\ IdsOf(queue) = <<3>>
  /\ fsmState = "scheduled" /\ tickQ = <<"run-queue">>

\* the lines of i..k where the phase of interceptor x in a direction starts
Phase(i, k, direction, x) ==
  {j \in i..k : trace[j].op = direction /\ trace[j].ic = x}

\* every line of the set A comes before every line of the set B
Precede(A, B) == \A a \in A, b \in B : a < b

\* the positions of x in the sequence s
Places(s, x) == {m \in 1..Len(s) : s[m] = x}

\* C29: in every pipeline the before phases of the global interceptors run in
\* registration order, before those of the event's own interceptors, which
\* run in their order before the handler; the after phases run the other way
\* round, and do-fx's after phase, with the commit and the effects, comes
\* after the after phase of every other interceptor, so that an effect an
\* after phase appended is executed.
C29_PipelineOrder ==
  \A i \in 1..Len(trace), k \in 1..Len(trace) :
    Pipeline(i, k) =>
      LET own == getInterceptors(trace[i].ic)
          chain == getGlobalInterceptors \o own \o <<"fx-handler">>
          doFx == Phase(i, k, "after", "do-fx")
          called == {j \in i..k : trace[j].op = "handler"}
      IN /\ \A x \in Range(chain), y \in Range(chain) :
              Precede(Places(chain, x), Places(chain, y)) /\ x # y =>
                /\ Precede(Phase(i, k, "before", x), Phase(i, k, "before", y))
                /\ Precede(Phase(i, k, "after", y), Phase(i, k, "after", x))
         /\ \A x \in Range(chain) :
              /\ Precede(Phase(i, k, "before", x), called) \/ x = "fx-handler"
              /\ Precede(called, Phase(i, k, "after", x))
              /\ Precede(Phase(i, k, "after", x), doFx)
              /\ Cardinality(Phase(i, k, "before", x)) <= 1
              /\ Cardinality(Phase(i, k, "after", x)) <= 1
         /\ Precede(doFx,
                    {j \in i..k : trace[j].op \in {"replace", "commit", "fx",
                                                    "fx-missing"}})
         /\ (\A j \in i..k : trace[j].op # "throw") =>
              /\ Cardinality(doFx) = 1
              /\ \A x \in Range(getGlobalInterceptors) :
                   Cardinality(Phase(i, k, "before", x)) = 1
              /\ Cardinality(Phase(i, k, "after", "stamp")) = 1
         /\ (doFx # {} /\ Phase(i, k, "after", "stamp") # {}) =>
              Cardinality({j \in i..k :
                             trace[j].op = "fx" /\ trace[j].ic = "stamp"}) = 1

\* the pipeline of an fx event: both global interceptors, then trim and log,
\* then the handler; the effect the after phase of stamp appended ran last
C29_Witness ==
  \E i \in 1..Len(trace), k \in 1..Len(trace) :
    /\ Pipeline(i, k) /\ trace[i].ic = "fx"
    /\ PhasesRun(i, k, "before") =
         <<"inject-global-interceptors", "audit", "stamp", "trim", "log",
           "fx-handler">>
    /\ \E a \in Phase(i, k, "after", "stamp"), d \in Phase(i, k, "after", "do-fx"),
           f \in i..k :
         /\ a < d /\ d < f
         /\ trace[f].op = "fx" /\ trace[f].ic = "stamp"
         /\ \A j \in (f + 1)..k : trace[j].op \notin {"fx", "fx-missing"}

\* --------------------------------------------- properties of the graph
\* the wave's calls have returned and its microtasks have all run
WaveDone == draining /\ microtasks = <<>>

\* the wave's calls are markDirty() on the root, and assignments to its source
PureMarks ==
  \A i \in 1..Len(task) : task[i].op \in {"markDirty", "setSource"}

\* the wave was started by exactly one markDirty() call
SingleMark == PureMarks /\ marks["base"] = 1

NotesFor(n, cb) == Len(SelectSeq(notes, LAMBDA x : x.node = n /\ x.cb = cb))

WatchersOf(n) == Range(rx[n].watchers)

Derived == {n \in Nodes : ~isRoot(n)}

C8_OneNotificationNewValue ==
  (WaveDone /\ SingleMark) =>
    \A n \in Derived :
      hasWatchers(G, n) =>
        /\ rx[n].value = Fresh(n)
        /\ \A cb \in WatchersOf(n) :
             NotesFor(n, cb) = (IF n \in bumped THEN 1 ELSE 0)
        /\ \A i \in 1..Len(notes) :
             notes[i].node = n => notes[i].value = Fresh(n)

C8_Witness ==
  /\ WaveDone /\ SingleMark
  /\ appDb.count = 5
  /\ rx["left"].version = 2
  /\ notes = <<[node |-> "left", cb |-> "cb1", value |-> 10]>>

\* the action is a call of unwatch() on n
Unwatched(n) == task' = Append(task, [op |-> "unwatch", node |-> n])

InNoDependents(m, r) == \A d \in Nodes : ~Contains(r[d].dependents, m)

InDepsDependents(m, r) ==
  \A i \in 1..Len(deps[m]) : Contains(r[deps[m][i]].dependents, m)

AliveIn(r, m) == Len(r[m].watchers) > 0 \/ Len(r[m].dependents) > 0

\* C9: when unwatch() leaves a node without watchers and dependents, that
\* node and every node that is thereby no longer alive is in no dependent
\* set and has its dirty and scheduled flags and dependency versions reset,
\* while every node that is still alive stays in the dependent set of each
\* of its dependencies.
C9_DisposeReleasesEdges ==
  [][\A n \in Nodes :
       (Unwatched(n) /\ ~AliveIn(rx', n)) =>
         \A m \in Nodes :
           IF AliveIn(rx', m) THEN InDepsDependents(m, rx')
           ELSE /\ InNoDependents(m, rx')
                /\ AliveIn(rx, m) =>
                     /\ ~rx'[m].dirty /\ ~rx'[m].scheduled
                     /\ rx'[m].depsVersions = <<>>]_vars

C9_Witness ==
  /\ task # <<>> /\ task[Len(task)] = [op |-> "unwatch", node |-> "top"]
  /\ ~isAlive(G, "top") /\ ~isAlive(G, "right")
  /\ hasWatchers(G, "left")
  /\ rx["base"].dependents = <<"left">>
  /\ rx["left"].dependents = <<>>

\* the versions of a node's dependencies, in the order of its deps
CurrentVersions(r, n) == [i \in 1..Len(deps[n]) |-> r[deps[n][i]].version]

\* a step cleaned the dirty node n, which had a cached value, after every
\* dependency of n recomputed to an output equal to its previous one
EqualUpstream(n) ==
  /\ rx[n].value # Undefined
  /\ rx[n].dirty /\ ~rx'[n].dirty
  /\ Len(rx'[n].watchers) > 0
  /\ \A i \in 1..Len(deps[n]) : deps[n][i] \in eqOut'

\* the step invoked no watcher of n
Silent(n) == \A i \in 1..Len(stepNotes') : stepNotes'[i].node # n

Marked(n) == task' = Append(task, [op |-> "markDirty", node |-> n])

\* the step is a forced read of m
ForcedRead(m) == task' = Append(task, [op |-> "computeValue", node |-> m])

\* the step is the microtask that scheduleRecompute() queued for m
Microtask(m) == task' = task /\ microtasks # <<>> /\ Head(microtasks) = m

\* n and its transitive dependencies
RECURSIVE DepSet(_)
DepSet(n) == {n} \cup UNION {DepSet(deps[n][i]) : i \in 1..Len(deps[n])}

\* C21: markDirty() on a node that is not alive sets its dirty flag and
\* schedules no recompute, and the compute function of a node that is not
\* alive is invoked only when the node is read through the forced path or
\* pulled by the recompute of a node that depends on it.
C21_DeadNodeNotComputed ==
  [][\A n \in Nodes :
       ~isAlive(G, n) =>
         /\ Marked(n) =>
              rx'[n].dirty /\ microtasks' = microtasks /\ cnt' = cnt
         /\ cnt'[n] > cnt[n] =>
              \E m \in Nodes :
                /\ n \in DepSet(m)
                /\ ForcedRead(m) \/ (m # n /\ Microtask(m))]_vars

\* the part of C21 about the call itself: markDirty() on a node that is not
\* alive sets its dirty flag, queues no microtask and computes nothing
C21_DeadMarkSchedulesNothing ==
  [][\A n \in Nodes :
       (~isAlive(G, n) /\ Marked(n)) =>
         rx'[n].dirty /\ microtasks' = microtasks /\ cnt' = cnt]_vars

\* ------------------------------------------- properties of the exceptions
\* the error history the step added
NewErrors == SubSeq(errors', Len(errors) + 1, Len(errors'))

\* the nodes whose recompute an exception passed through in the step
Aborted ==
  {NewErrors[i].node :
     i \in {j \in 1..Len(NewErrors) : NewErrors[j].kind = "computation"}}

\* the nodes whose compute function threw: the first recompute an exception
\* passed through
Origins(log) ==
  {log[i].node :
     i \in {j \in 1..Len(log) :
              /\ log[j].kind = "computation"
              /\ j = 1 \/ log[j - 1].kind # "computation"}}

\* the step is a recompute: a microtask or a forced read
Recompute == \E m \in Nodes : Microtask(m) \/ ForcedRead(m)

\* C22: when a node's compute function throws during a recompute, the
\* exception reaches the caller, the node and every node pulling it stay
\* dirty with value and version unchanged and no watcher of them is called,
\* and a later recompute of the node invokes its compute function again.
C22_ComputeThrowKeepsDirty ==
  [][/\ \A n \in Origins(NewErrors) : cnt'[n] = cnt[n] + 1
     /\ \A n \in Aborted :
          /\ NewErrors[Len(NewErrors)].kind = "thrown"
          /\ rx'[n].dirty
          /\ rx'[n].value = rx[n].value
          /\ rx'[n].version = rx[n].version
          /\ Silent(n)
     /\ \A n \in Origins(errors) :
          (Recompute /\ rx[n].dirty /\ (~rx'[n].dirty \/ n \in Aborted)) =>
            \/ cnt'[n] = cnt[n] + 1
            \/ \E d \in Aborted : d \in DepSet(n) \ {n}]_vars

\* top's microtask pulled right, whose compute function threw, and right's own
\* microtask then attempted the computation again
C22_Witness ==
  /\ errors = <<logged("computation", "right", "-"),
                logged("computation", "top", "-"),
                logged("thrown", "top", "-"),
                logged("computation", "right", "-"),
                logged("thrown", "right", "-")>>
  /\ cnt["right"] = 2 /\ cnt["top"] = 0
  /\ rx["right"].dirty /\ rx["top"].dirty
  /\ ~rx["left"].dirty /\ "left" \in bumped
  /\ notes = <<>>

\* the calls of the step to the watcher cb of n
CallsTo(n, cb) == SelectSeq(stepNotes', LAMBDA x : x.node = n /\ x.cb = cb)

\* the step called a watcher of n that threw
WatcherThrew(n) ==
  \E i \in 1..Len(stepNotes') :
    /\ stepNotes'[i].node = n
    /\ watcherThrows(stepNotes'[i].cb, stepNotes'[i].value)

\* C23: when a watcher callback throws while a node publishes a changed
\* value, the error is logged for that watcher, every watcher of the node is
\* called once with the new value, the node ends clean with its version
\* incremented, and the recompute that pulled the node goes on: no exception
\* leaves it unless a compute function threw.
C23_WatcherThrowIsolated ==
  [][\A n \in Nodes :
       WatcherThrew(n) =>
         /\ \A cb \in Range(rx'[n].watchers) :
              /\ Len(CallsTo(n, cb)) = 1
              /\ CallsTo(n, cb)[1].value = rx'[n].value
              /\ watcherThrows(cb, rx'[n].value) <=>
                   Occurrences(NewErrors, logged("watcher", n, cb)) = 1
         /\ ~rx'[n].dirty
         /\ rx'[n].version = rx[n].version + 1
         /\ n \notin Aborted
         /\ Origins(NewErrors) = {} =>
              /\ \A i \in 1..Len(NewErrors) : NewErrors[i].kind = "watcher"
              /\ \A m \in Nodes : Microtask(m) => ~rx'[m].dirty]_vars

\* the first watcher of base threw and the second was called all the same
C23_Witness ==
  /\ rx["base"].watchers = <<"cb1", "cb2">>
  /\ stepNotes = <<[node |-> "base", cb |-> "cb1", value |-> 5],
                   [node |-> "base", cb |-> "cb2", value |-> 5]>>
  /\ errors = <<logged("watcher", "base", "cb1")>>
  /\ ~rx["base"].dirty /\ "base" \in bumped

\* ------------------------------------------ properties of the forced read
\* C24: a forced read of a node calls no watcher of any node and, when it
\* completes normally, has recomputed the root of the node's dependency set,
\* invoked each compute function of that set at most once, left every node
\* of the set clean and holding the value computed from the current source,
\* and returned that value for the node.
C24_ForcedReadFreshAndSilent ==
  [][\A n \in Nodes :
       ForcedRead(n) =>
         /\ stepNotes' = <<>> /\ notes' = notes
         /\ NewErrors = <<>> =>
              \A d \in DepSet(n) :
                /\ ~rx'[d].dirty
                /\ rx'[d].value = Fresh(d)
                /\ cnt'[d] <= cnt[d] + 1
                /\ isRoot(d) =>
                     /\ cnt'[d] = cnt[d] + 1
                     /\ rx'[d].version = rx[d].version + 1]_vars

\* top, watched and computed from the source 0, was read through the forced
\* path after the source became 5
C24_Witness ==
  /\ task # <<>> /\ task[Len(task)] = [op |-> "computeValue", node |-> "top"]
  /\ appDb.count = 5
  /\ hasWatchers(G, "top") /\ hasWatchers(G, "left")
  /\ rx["top"].value = 16 /\ rx["top"].version = 2
  /\ \A n \in Nodes : cnt[n] = 1 /\ ~rx[n].dirty
  /\ notes = <<>>

\* ------------------------------------------------ properties of the roots
Roots == {n \in Nodes : isRoot(n)}

\* every watcher of n was called exactly once in the step, with n's new value
AllNotified(n) ==
  \A cb \in Range(rx'[n].watchers) :
    Len(CallsTo(n, cb)) = 1 /\ CallsTo(n, cb)[1].value = rx'[n].value

\* C28 as stated: every recompute of a dirty root invokes its compute
\* function, increments its version and notifies all of its watchers, whether
\* or not the new value equals the cached one.
C28_RootAlwaysNotifies ==
  [][\A n \in Roots :
       /\ (Recompute /\ rx[n].dirty /\ ~rx'[n].dirty) => cnt'[n] = cnt[n] + 1
       /\ cnt'[n] > cnt[n] =>
            /\ rx'[n].version = rx[n].version + 1
            /\ AllNotified(n)]_vars

\* C28 amended: every recompute of a dirty root invokes its compute function
\* once, stores the value read from the source and increments its version,
\* whether or not the value equals the cached one; its watchers are all
\* notified when the recompute is a microtask's or a pull from one, and none
\* of them when it is a forced read.
C28_RootNeverGated ==
  [][\A n \in Roots :
       /\ (Recompute /\ rx[n].dirty /\ ~rx'[n].dirty) => cnt'[n] = cnt[n] + 1
       /\ cnt'[n] > cnt[n] =>
            /\ cnt'[n] = cnt[n] + 1
            /\ ~rx'[n].dirty
            /\ rx'[n].value = appDb.count
            /\ rx'[n].version = rx[n].version + 1
            /\ IF \E m \in Nodes : ForcedRead(m) THEN Silent(n)
               ELSE AllNotified(n)]_vars

\* the watched root was recomputed by its microtask to the value it already
\* had: its version went up and its watcher was called with that value
C28_Witness ==
  /\ WaveDone /\ SingleMark
  /\ appDb.count = 0
  /\ cnt["base"] = 1 /\ rx["base"].value = 0 /\ rx["base"].version = 2
  /\ notes = <<[node |-> "base", cb |-> "cb1", value |-> 0]>>

\* ------------------------------------------- properties of the subscriptions
\* the bridge has flushed and the microtasks the flush queued have run
Flushed == Len(reactionsQueue) = 0 /\ ~reactionsScheduled /\ microtasks = <<>>

\* C30: no lost update under forced reads: once the bridge flush and the
\* recompute microtasks have run, every watcher that was registered on a node
\* when a commit changed the node's output has been called with the node's
\* new value, whether or not the node was read through the forced path in
\* between.
C30_NoLostUpdate == Flushed => owed = {}

\* nothing is left to run: no callback is with the host, no microtask is
\* queued and the bridge has nothing to flush
Quiescent ==
  /\ HostIdle
  /\ tickQ = <<>>
  /\ renderQ = <<>>
  /\ Flushed

\* C31: no subscribe gap: a consumer that read a derived node through the
\* forced path and then registered a watcher on it holds, once everything
\* scheduled has run, the node's current value: the cached value the read or
\* the last notification delivered is the compute function's value on the
\* committed snapshot, even when a commit was flushed between the read and
\* the registration.
C31_NoSubscribeGap ==
  Quiescent =>
    \A n \in Nodes :
      (Len(rx[n].watchers) > 0 /\ rx[n].value # Undefined) => rx[n].value = Fresh(n)

TransitionNotFound ==
  \E i \in 1..Len(trace) : trace[i].op = "not-found"

\* C33: every trigger the queue issues to its own FSM is issued in a state for
\* which the transition table defines it: no callback reaches the 'router
\* state transition not found' branch.
C33_TriggersDefined == ~TransitionNotFound

\* the callback read the head of an empty queue
EmptyHeadAccess ==
  \E i \in 1..Len(trace) : trace[i].op = "type-error"

\* C34: a drain reads the head of the queue and invokes the handler only while
\* the queue is non-empty: once an exception has emptied the queue in the
\* middle of a drain, the loop makes no further head access and no further
\* handler invocation.
C34_NoHeadAccessOnEmptyQueue == ~EmptyHeadAccess

\* ------------------------------------------------ progress of the queue
\* every pushed event was handled once, in order, and the queue is at rest
AllHandled ==
  /\ fsmState = "idle"
  /\ queue = <<>>
  /\ InPushOrder(handled)
  /\ Len(handled) = Len(dispatched)

\* C35: if no handler throws and the scheduling hooks run every callback they
\* were given, then once the pushes have stopped every pushed event has been
\* handled exactly once and the FSM is idle with an empty queue, for good.
C35_EventuallyAllHandled == <>[](NoneThrows => AllHandled)

\* three events, the second with a pause, were all handled and the queue is
\* idle again
C35_Witness ==
  /\ Len(dispatched) = 3
  /\ NoneThrows
  /\ laterKeyOf(dispatched[2]) # None
  /\ handled = <<1, 2, 3>>
  /\ AllHandled

\* ------------------------------------- properties of the pending callbacks
\* the queue's callbacks now with the scheduling hooks, by trigger
Outstanding(trigger) ==
  Len(SelectSeq(tickQ, LAMBDA f : f = trigger))
    + Len(SelectSeq(renderQ, LAMBDA f : f = trigger))

\* C36: at most one queue callback is outstanding with the scheduling hooks:
\* exactly one drain callback while the FSM is scheduled, exactly one resume
\* callback while it is paused, none while it is idle or running.
C36_OneCallbackOutstanding ==
  /\ fsmState = "scheduled" =>
       Outstanding("run-queue") = 1 /\ Outstanding("resume") = 0
  /\ fsmState = "paused" =>
       Outstanding("run-queue") = 0 /\ Outstanding("resume") = 1
  /\ fsmState \in {"idle", "running"} =>
       Outstanding("run-queue") = 0 /\ Outstanding("resume") = 0

\* the queue was paused, an event was pushed meanwhile, and after the resume
\* the queue is scheduled again with one drain callback pending
C36_Witness ==
  /\ fsmState = "scheduled"
  /\ Outstanding("run-queue") = 1
  /\ Len(handled) > 0
  /\ \E i \in 1..Len(dispatched) :
       /\ laterKeyOf(dispatched[i]) # None
       /\ Len(handled) >= i
  /\ Len(queue) > 0

\* C37: in every reachable state, the FSM being idle implies the queue is
\* empty: no event is pending without a drain or resume callback outstanding.
C37_IdleMeansEmpty == fsmState = "idle" => queue = <<>>

\* idle after an exception that discarded an event queued behind the failing
\* one, and idle after a drain that handled an event
C37_Witness ==
  /\ fsmState = "idle"
  /\ queue = <<>>
  /\ failed # {} /\ purged # {}
  /\ Len(handled) >= 2

\* ------------------------------------------- the queue after an exception
\* the step pushes an event onto the idle queue after an exception
PushAfterPurge ==
  /\ failed # {}
  /\ fsmState = "idle"
  /\ Len(dispatched') = Len(dispatched) + 1

\* every pushed event was given to the handler or discarded by an exception
AllSettled ==
  /\ fsmState = "idle"
  /\ queue = <<>>
  /\ \A i \in 1..Len(dispatched) : i \in Range(handled) \cup purged

\* C38: after an exception has purged the queue, the queue is usable again:
\* an event pushed afterwards moves the FSM from idle to scheduled with one
\* drain callback pending, is handled in a later drain, and the FSM returns
\* to idle; no exception leaves the FSM stuck in running, paused or scheduled
\* without a pending callback.
C38_UsableAfterException ==
  /\ [][PushAfterPurge =>
          /\ fsmState' = "scheduled"
          /\ Len(queue') = 1
          /\ Outstanding("run-queue")' = 1]_vars
  /\ [](fsmState # "running" /\ C36_OneCallbackOutstanding)
  /\ <>[]AllSettled

\* an event pushed after an exception was handled and the queue is idle
C38_Witness ==
  /\ fsmState = "idle"
  /\ \E f \in failed :
       \E i \in 1..Len(handled) : handled[i] > f /\ handled[i] \notin failed

\* ------------------------------------------------ properties of the edges
\* n is in the dependent-set of each of its dependencies / of none of them
EdgesIn(n) == \A i \in 1..Len(deps[n]) : Contains(rx[deps[n][i]].dependents, n)

EdgesOut(n) == \A i \in 1..Len(deps[n]) : ~Contains(rx[deps[n][i]].dependents, n)

\* the nodes between the root and the alive nodes
RECURSIVE Above(_)
Above(n) ==
  {n} \cup UNION {Above(d) : d \in {m \in Nodes : Contains(deps[m], n)}}

\* C39: graph-edge consistency: after any sequence of watch, unwatch,
\* markDirty, recompute and forced-read operations, a node with dependencies
\* is in the dependent-set of each of them if and only if it is alive; so a
\* markDirty() on the root marks every alive node that depends on it.
C39_EdgesMatchAlive ==
  /\ \A n \in Derived :
       IF isAlive(G, n) THEN EdgesIn(n) ELSE EdgesOut(n)
  /\ (task # <<>> /\ task[Len(task)] = [op |-> "markDirty", node |-> "base"]) =>
       \A n \in Above("base") : isAlive(G, n) => marks[n] >= 1

\* top and left are watched, right is alive through top only, and the root
\* was marked dirty: the four nodes were reached
C39_Witness ==
  /\ task # <<>> /\ task[Len(task)] = [op |-> "markDirty", node |-> "base"]
  /\ hasWatchers(G, "top") /\ hasWatchers(G, "left") /\ ~hasWatchers(G, "right")
  /\ \A n \in Nodes : isAlive(G, n) /\ marks[n] >= 1

\* ------------------------------------------------ properties of the bridge
\* the top-level keys patched by the commits of a callback's trace
PatchedKeys(tr) == {tr[j].ic : j \in {i \in 1..Len(tr) : tr[i].op = "patch"}}

\* the step is a callback of the queue that handled at least one event
Drained == Len(handled') > Len(handled)

\* C40: no lost invalidation in the bridge: every commit with a patch under a
\* top-level key that has a root reaction puts the key in the pending set with
\* one flush callback outstanding, also when a flush was already pending; the
\* flush marks the root of every pending key dirty; a pending key is flushed
\* eventually; and a callback whose commits have no patches replaces nothing
\* and schedules nothing.
C40_NoLostInvalidation ==
  /\ [][/\ Drained =>
             \A k \in PatchedKeys(trace') \cap DOMAIN RootOf :
               /\ Contains(reactionsQueue', k)
               /\ reactionsScheduled'
               /\ PendingFlushes(renderQ') = 1
        /\ (Drained /\ PatchedKeys(trace') = {}) =>
             /\ appDb' = appDb
             /\ reactionsQueue' = reactionsQueue
             /\ reactionsScheduled' = reactionsScheduled
             /\ PendingFlushes(renderQ') = PendingFlushes(renderQ)
        /\ (reactionsQueue # <<>> /\ reactionsQueue' # reactionsQueue /\ ~Drained) =>
             /\ reactionsQueue' = <<>>
             /\ \A k \in Range(reactionsQueue) :
                  marks'[RootOf[k]] = marks[RootOf[k]] + 1]_vars
  /\ \A k \in DOMAIN RootOf :
       Contains(reactionsQueue, k) ~> ~Contains(reactionsQueue, k)

\* the key other was committed by the second event of a drain, while the
\* flush for the first event's key count was already pending
C40_Witness ==
  /\ reactionsQueue = <<"count", "other">>
  /\ PendingFlushes(renderQ) = 1
  /\ \E h \in 1..Len(trace) :
       /\ trace[h].op = "handler"
       /\ trace[h].pending = <<"count">>
       /\ \E j \in (h + 1)..Len(trace) :
            trace[j].op = "patch" /\ trace[j].ic = "other"

====
